---- MODULE Spec2Model ----
(***************************************************************************)
(* Autoregressive TSP decoder of Transformer-TSP50/my_model_packages.py:   *)
(* the per-layer self-attention cache (K_sa, V_sa), greedy decoding and    *)
(* batched beam search of TSP_net.forward.                                 *)
(*                                                                         *)
(* Tensors are sequences (1-based); the VALUES stored in them (node ids,   *)
(* beam ids) are 0-based as in the code: cities are 0..nb_nodes-1 and the  *)
(* start placeholder is node nb_nodes.  A mask row is a sequence of        *)
(* nb_nodes+1 booleans, entry j+1 standing for node j.                     *)
(*                                                                         *)
(* Real-valued vectors are abstracted to integer digests: every learned    *)
(* map of the network is a fixed deterministic function of its inputs, so  *)
(* a digest is a deterministic function of the same inputs.  Scores are    *)
(* integer surrogates of log-probabilities, NegInf standing for log(0).    *)
(***************************************************************************)
EXTENDS Integers, Sequences, FiniteSets

\* ------------------------------------------------------------- bounds
MaxNodes == 3
MaxBeam == 5
\* rows of one decoder call: batch rows times beams
MaxRows == 6
\* one instance and a beam wider than its candidates (SpecWide)
WideNodes == 2
WideBeam == 7
MaxBsz == 2
MaxSeed == 1
MaxLayers == 3
MaxSegm == 2
\* calls on a model that was used before (SpecReuse)
ReuseNodes == 3
ReuseBeam == 3
\* direct use of the decoder's cache operations (SpecApi)
ApiRows == 4
ApiSteps == 2
\* compute_tour_length (SpecLength)
MaxCities == 4
\* two runs on one decoder (SpecTwoRuns): nodes of an instance, instances of
\* a run, beams of a beam run, layers of the decoder that keep a cache
RunSteps == 2
RunRows == 1
RunBeam == 2
RunLayers == 1
TieSeed == 4
\* arguments of the constructor (SpecBuild)
MaxDim == 6
MaxHeads == 4

\* logit clip of the final decoder layer: myMHA(..., 1, mask, 10)
clip_value == 10

\* log(0): below every finite cumulative score the bounds allow
NegInf == 0 - ((2 * clip_value + 1) * (MaxNodes + 2)) - 1

\* K_sa = None, V_sa = None: a layer with no cache (segm_len = None is written 0)
None == <<>>

\* the locals of a run that is in no call of the decoder
NoLocals ==
  [op |-> "none", line |-> 0, ph |-> 0, l |-> 0, h |-> <<>>, B2 |-> 0, b |-> 0,
   tmp |-> None, ref |-> None, rpos |-> <<>>, al |-> FALSE]

\* no decoding run has started on the decoder
NoRuns ==
  [st |-> <<"idle", "idle">>, mode |-> <<"greedy", "greedy">>,
   t |-> <<0, 0>>, done |-> <<0, 0>>,
   h_t |-> <<<<>>, <<>>>>, mask |-> <<<<>>, <<>>>>, sums |-> <<<<>>, <<>>>>,
   itb |-> <<<<>>, <<>>>>,
   loc |-> <<NoLocals, NoLocals>>, pos |-> {}, clean |-> <<TRUE, TRUE>>]

VARIABLES
  dim_emb, nb_heads,   \* TSP_net(..., dim_emb, ..., nb_heads, ...)
  segm_len,            \* AutoRegressiveDecoderLayer.segm_len (0 = None)
  nb_layers_decoder,   \* Transformer_decoder_net.nb_layers_decoder
  max_len_PE,          \* TSP_net.PE has max_len_PE rows (line 311)
  K_sa, V_sa,          \* per cached layer: None or rows of cached keys/values
  pc,                  \* position in TSP_net.forward
  x, bsz, nb_nodes, B, greedy, beamsearch,      \* arguments of forward
  warm_start,          \* history: some cache was not None when forward was called
  t, h_t, mask_visited_nodes, tours, sum_scores, \* locals of the decoding loops
  B_t0, top_idx, idx_top_beams, idx_in_beams, K_att_decoder,
  ops,                 \* history: the decoder's operations this call of forward made, in order
  PE_read,             \* history: the indices of self.PE the current mode read, in order
  tours_greedy, scores_greedy, tours_beamsearch, scores_beamsearch,
  cities, tour, L_length, i_length,  \* compute_tour_length: x, tour, L and i (one batch row)
  first_cities, previous_cities, current_cities,
  runs                 \* two decoding runs that share one decoder (SpecTwoRuns)

config == <<dim_emb, nb_heads, segm_len, nb_layers_decoder, max_len_PE>>
cache == <<K_sa, V_sa>>
args == <<x, bsz, nb_nodes, B, greedy, beamsearch, warm_start>>
locals == <<t, h_t, mask_visited_nodes, tours, sum_scores, B_t0, top_idx, idx_top_beams,
            idx_in_beams, K_att_decoder, ops, PE_read>>
outputs == <<tours_greedy, scores_greedy, tours_beamsearch, scores_beamsearch>>
length == <<cities, tour, L_length, i_length, first_cities, previous_cities, current_cities>>
vars == <<config, cache, pc, args, locals, outputs, length, runs>>

\* ------------------------------------------------------------ helpers
Min(a, b) == IF a <= b THEN a ELSE b

RECURSIVE Tab(_, _)
\* the sequence <<F(1), ..., F(n)>>
Tab(F(_), n) == IF n = 0 THEN <<>> ELSE Append(Tab(F, n - 1), F(n))

\* F(v), F(v, w), F(v, w, u) with the arguments evaluated once, before F is
Let1(v, F(_)) == CHOOSE r \in {F(d) : d \in {v}} : TRUE
Let2(v, w, F(_, _)) == CHOOSE r \in {F(d, e) : d \in {v}, e \in {w}} : TRUE
Let3(v, w, u, F(_, _, _)) ==
  CHOOSE r \in {F(d, e, f) : d \in {v}, e \in {w}, f \in {u}} : TRUE

Zeros(n) == Tab(LAMBDA p : 0, n)

RECURSIVE SumSeq(_)
SumSeq(s) == IF s = <<>> THEN 0 ELSE Head(s) + SumSeq(Tail(s))

\* torch.repeat_interleave(rows, w, dim=0): row r is repeated w times in place
RepeatInterleave(rows, w) ==
  Tab(LAMBDA r : rows[((r - 1) \div w) + 1], (Len(rows) * w))

\* the last n entries of a sequence: s[-n:]
LastN(s, n) == IF Len(s) <= n THEN s ELSE SubSeq(s, Len(s) - n + 1, Len(s))

\* faulty variant of AddScore: the step's log-probability is subtracted
AddScore_Minus(a, b) == IF a = NegInf \/ b = NegInf THEN NegInf ELSE b - a

\* x + y on scores, log(0) absorbing
AddScore(a, b) == IF a = NegInf \/ b = NegInf THEN NegInf ELSE a + b

\* --------------------------------------------- digests of the learned maps
\* h_encoder[b, node, :] + PE[pos]: the query of a row whose last node is
\* `node`, for the input row xb, at decoding position pos
Emb(xb, node, pos) == (7 * xb + 13 * node + 31 * pos + 1) % 97

\* generate_positional_encoding(d_model, max_len), lines 248-262: a table of
\* max_len rows; self.PE[idx] raises IndexError unless idx < max_len
InTable(idx) == idx < max_len_PE

\* faulty variant of PEIndex: the row of the step itself
PEIndex_Current(tt) == tt

\* the row of self.PE that step tt adds to the next query: self.PE[t+1]
\* (lines 376, 427, 467, 505)
PEIndex(tt) == tt + 1

\* faulty variant of NextQuery: the positional encoding of the step itself
NextQuery_SamePosition(xb, node, tt) == Emb(xb, node, tt)

\* h_encoder[b, idx, :] + PE[t+1]: the query step t leaves for step t+1
\* (lines 375-376, 425-427, 463-466, 502-505)
NextQuery(xb, node, tt) == Emb(xb, node, PEIndex(tt))

Wq_selfatt(h) == (3 * h + 1) % 97
Wk_selfatt(h) == (5 * h + 2) % 97
Wv_selfatt(h) == (7 * h + 3) % 97

\* the nodes a mask row leaves selectable
Unmasked(mask) == {j \in 0..(Len(mask) - 1) : ~mask[j + 1]}

RECURSIVE SumSet(_, _, _)
\* sum of F(j, a) over j in S, for F(j, a) = a * (j + 1)
SumSet(S, a, acc) ==
  IF S = {} THEN acc
  ELSE Let1(CHOOSE k \in S : \A m \in S : k <= m,
            LAMBDA j : Let2(S \ {j}, acc + a * (j + 1),
                            LAMBDA S2, acc2 : SumSet(S2, a, acc2)))

\* 1 / a in the digests (the integers modulo the prime 97), for a not a
\* multiple of 97
Inverse(a) == CHOOSE c \in 1..96 : (a * c) % 97 = 1

\* exp(q.k / sqrt(d)): the positive weight, before normalisation, of a cached
\* key k for the query q (myMHA, lines 79 and 91)
AttWeight(q, k) == ((q * k) % 3) + 1

\* myMHA(q_sa, K_sa, V_sa, nb_heads)[0]: self-attention of one row over its
\* cached keys and values: softmax(q.K) V, the mean of the cached values
\* weighted by the keys' weights (lines 79-92).  The order of the entries does
\* not matter, one entry alone gives its value, and an entry held twice counts
\* twice
SelfAtt(q, Krow, Vrow) ==
  Let2(SumSeq(Tab(LAMBDA i : AttWeight(q, Krow[i]) * Vrow[i], Len(Krow))),
       SumSeq(Tab(LAMBDA i : AttWeight(q, Krow[i]), Len(Krow))),
       LAMBDA num, den : (num * Inverse(den)) % 97)

\* myMHA(q_a, K_att, V_att, nb_heads, mask)[0]: attention of one row over the
\* encoder nodes its mask leaves visible, for layer l and input row xb.  The
\* softmax of line 94 gives a masked node the weight 0 while a node is left
\* visible: with one visible node the result is that node's value, whatever
\* the query, and with none it is the mean of the values of all the nodes
CrossAtt(q, xb, l, mask) ==
  Let1(Unmasked(mask), LAMBDA U :
    IF Cardinality(U) >= 2 THEN (q + SumSet(U, 11 + xb + 17 * l, 0)) % 97
    ELSE IF Cardinality(U) = 1 THEN SumSet(U, 11 + xb + 17 * l, 0) % 97
    ELSE SumSet(0..(Len(mask) - 1), 11 + xb + 17 * l, 1) % 97)

\* one row of AutoRegressiveDecoderLayer.forward once the cache is updated
LayerRow(h, Krow, Vrow, xb, l, mask) ==
  Let1((h + SelfAtt(Wq_selfatt(h), Krow, Vrow)) % 97,
       LAMBDA h1 : Let1((h1 + CrossAtt(h1, xb, l, mask)) % 97,
                        LAMBDA h2 : (2 * h2 + 1) % 97))

\* clip_value * tanh(logit) of the final layer, for node j
Logit(q, xb, j) == ((q * (j + 3) + 5 * xb + 7 * j) % (2 * clip_value + 1)) - clip_value

\* log(prob_next_node) of one row: masked_fill(-1e9) then softmax gives a
\* masked node probability 0 (log = NegInf) while a node is left unmasked, and
\* the uniform distribution when every node is masked
LogProbRow(q, xb, mask) ==
  Let1(Unmasked(mask), LAMBDA U :
    Let1(IF U = {} THEN 0..(Len(mask) - 1) ELSE U, LAMBDA S :
      Let1(Tab(LAMBDA p : IF U = {} THEN 0 ELSE Logit(q, xb, p - 1), Len(mask)),
           LAMBDA lg :
        Let1(CHOOSE v \in {lg[j + 1] : j \in S} : \A j \in S : lg[j + 1] <= v,
             LAMBDA top :
          Tab(LAMBDA p :
                IF (p - 1) \notin S THEN NegInf
                ELSE IF Cardinality(S) = 1 THEN 0
                ELSE lg[p] - top - 1, Len(mask))))))

\* ------------------------------------------------ AutoRegressiveDecoderLayer
\* A cache K_sa (V_sa) of size (rows, length, dim_emb) is the sequence of its
\* rows, a row the sequence of the digests of its entries.  A reorder call that
\* raises can leave a cache of size (bsz, B, length, dim_emb): it is written
\* as the header row <<FourD, bsz>> followed by its bsz*B rows.
FourD == 0 - 1

\* the digest of the zero vector (torch.zeros)
Zero == 97

Is4D(Kl) == Kl # None /\ Kl[1] # <<>> /\ Kl[1][1] = FourD

\* the rows of a cache, whatever its leading dimensions
FlatRows(Kl) == IF Is4D(Kl) THEN Tail(Kl) ELSE Kl

\* K_sa.size(0)
Dim0(Kl) == IF Is4D(Kl) THEN Kl[1][2] ELSE Len(Kl)

\* the rows viewed as (bsz, B, length, dim_emb)
View4(nb, rows) == <<<<FourD, nb>>>> \o rows

\* torch.cat([self.K_sa, k_sa], dim=1) needs a cache of three dimensions with
\* as many rows as there are queries
CatOk(Kl, rows) == Kl # None /\ ~Is4D(Kl) /\ Len(Kl) = rows

\* lines 175-180: the cache with the new entry of every row, before the window
Cat(Kl, k_new) ==
  IF Kl = None THEN Tab(LAMBDA r : <<k_new[r]>>, Len(k_new))
  ELSE Tab(LAMBDA r : Append(Kl[r], k_new[r]), Len(k_new))

\* faulty variant of CacheAppend: a step starts the cache again
CacheAppend_Restart(Kl, k_new, segm) == Tab(LAMBDA r : <<k_new[r]>>, Len(k_new))

\* faulty variant of CacheAppend: the sliding window is never applied
CacheAppend_NoWindow(Kl, k_new, segm) ==
  IF Kl = None THEN Tab(LAMBDA r : <<k_new[r]>>, Len(k_new))
  ELSE Tab(LAMBDA r : Append(Kl[r], k_new[r]), Len(k_new))

\* lines 175-183: append the new entry of every row, keep the last segm_len
CacheAppend(Kl, k_new, segm) ==
  Let1(Cat(Kl, k_new),
       LAMBDA cat :
         IF segm # 0 THEN Tab(LAMBDA r : LastN(cat[r], segm), Len(cat)) ELSE cat)

\* faulty variant of LayerReset: the entries are dropped but the rows are kept
LayerReset_KeepRows(Kl) == IF Kl = None THEN None ELSE Tab(LAMBDA r : <<>>, Len(Kl))

\* AutoRegressiveDecoderLayer.reset_selfatt_keys_values
LayerReset(Kl) == None

\* faulty variant of LayerRepeat: the rows are tiled (torch.repeat) and not interleaved
LayerRepeat_Tile(Kl, w) == Tab(LAMBDA r : Kl[((r - 1) % Len(Kl)) + 1], (Len(Kl) * w))

\* AutoRegressiveDecoderLayer.repeat_selfatt_keys_values:
\* torch.repeat_interleave(K_sa, B, dim=0)
LayerRepeat(Kl, w) ==
  IF Is4D(Kl)
  THEN Let2(FlatRows(Kl), Len(FlatRows(Kl)) \div Dim0(Kl), LAMBDA rows, Bn :
         View4(Dim0(Kl) * w,
               Tab(LAMBDA r : rows[(((r - 1) \div Bn) \div w) * Bn + ((r - 1) % Bn) + 1],
                   (Len(rows) * w))))
  ELSE RepeatInterleave(Kl, w)

\* number of cached entries of a row (0 for no cache)
CacheLen(Kl) == IF Kl = None THEN 0 ELSE Len(FlatRows(Kl)[1])

KeyLen(tt, segm) == IF segm # 0 THEN Min(segm, tt + 1) ELSE tt + 1

\* B2 = self.K_sa.size(0) // bsz (line 148)
Beams2(Kl, idx) == Dim0(Kl) \div Len(idx)

\* T.view(bsz, B2, key_len, dim_emb) (lines 149, 155) raises unless the
\* element counts agree
ViewOk(Tl, B2, tt, idx, segm) ==
  /\ Tl # None
  /\ Len(FlatRows(Tl)) * CacheLen(Tl) = Len(idx) * B2 * KeyLen(tt, segm)

\* the first batch row b for which T_tmp[b, idx_top_beams[b]] (lines 153, 159)
\* raises IndexError, a beam id being outside 0..B2-1; 0 when there is none
FirstBadRow(idx, B2) ==
  Let1({b \in 1..Len(idx) : \E i \in 1..Len(idx[b]) : idx[b][i] \notin 0..(B2 - 1)},
       LAMBDA bad : IF bad = {} THEN 0 ELSE CHOOSE b \in bad : \A c \in bad : b <= c)

\* faulty variant of LayerReorder: the gather reads batch row 0 for every row
LayerReorder_FirstBatchRow(Kl, tt, idx, segm) ==
  LET nb == Len(idx)
      Bn == Len(idx[1])
      L == CacheLen(Kl)
      kl == KeyLen(tt, segm)
      B2 == (Len(FlatRows(Kl)) * L) \div (nb * kl)
      flat(e) == FlatRows(Kl)[((e - 1) \div L) + 1][((e - 1) % L) + 1]
      view(b, i) == Tab(LAMBDA p : flat((((b - 1) * B2 + i) * kl) + p), kl)
  IN Tab(LAMBDA r : view(1, idx[((r - 1) \div Bn) + 1][((r - 1) % Bn) + 1]), (nb * Bn))

\* lines 149-154 (155-160) when no statement raises: the cache viewed as
\* (bsz, B2, key_len), gathered per batch row by idx, flattened to bsz*B rows
LayerReorder(Kl, tt, idx, segm) ==
  LET nb == Len(idx)
      Bn == Len(idx[1])
      L == CacheLen(Kl)
      kl == KeyLen(tt, segm)
      B2 == (Len(FlatRows(Kl)) * L) \div (nb * kl)
      flat(e) == FlatRows(Kl)[((e - 1) \div L) + 1][((e - 1) % L) + 1]
      view(b, i) == Tab(LAMBDA p : flat((((b - 1) * B2 + i) * kl) + p), kl)
  IN Tab(LAMBDA r :
        view(((r - 1) \div Bn) + 1, idx[((r - 1) \div Bn) + 1][((r - 1) % Bn) + 1]), (nb * Bn))

\* lines 151-153 (157-159) when the gather of batch row `bad` raises: the
\* cache is the new torch.zeros(bsz, B, key_len, dim_emb), filled for the batch
\* rows before `bad` only
LayerReorderPartial(Tl, tt, idx, segm, bad) ==
  Let3(LayerReorder(Tl, tt, [b \in 1..Len(idx) |-> IF b < bad THEN idx[b] ELSE Zeros(Len(idx[b]))], segm),
       Len(idx[1]), KeyLen(tt, segm), LAMBDA full, Bn, kl :
    View4(Len(idx),
          Tab(LAMBDA r : IF ((r - 1) \div Bn) + 1 < bad THEN full[r]
                         ELSE Tab(LAMBDA p : Zero, kl), Len(full))))

\* one of the two halves of reorder_selfatt_keys_values, on K_sa or on V_sa
ReorderTensor(Tl, B2, tt, idx, segm) ==
  IF ~ViewOk(Tl, B2, tt, idx, segm) THEN [ok |-> FALSE, T |-> Tl]
  ELSE Let1(FirstBadRow(idx, B2), LAMBDA bad :
         IF bad # 0 THEN [ok |-> FALSE, T |-> LayerReorderPartial(Tl, tt, idx, segm, bad)]
         ELSE [ok |-> TRUE, T |-> LayerReorder(Tl, tt, idx, segm)])

\* AutoRegressiveDecoderLayer.reorder_selfatt_keys_values, lines 140-160: K_sa
\* first, then V_sa; a statement that raises leaves what was assigned before it
LayerReorderKV(Kl, Vl, tt, idx, segm) ==
  IF Kl = None THEN [ok |-> FALSE, K |-> Kl, V |-> Vl]
  ELSE Let1(Beams2(Kl, idx), LAMBDA B2 :
    Let1(ReorderTensor(Kl, B2, tt, idx, segm), LAMBDA rk :
      IF ~rk.ok THEN [ok |-> FALSE, K |-> rk.T, V |-> Vl]
      ELSE Let1(ReorderTensor(Vl, B2, tt, idx, segm), LAMBDA rv :
             [ok |-> rv.ok, K |-> rk.T, V |-> rv.T])))

\* the number of cached vectors of a cache
Numel(Tl) == IF Tl = None THEN 0 ELSE Len(FlatRows(Tl)) * CacheLen(Tl)

\* the cached vectors of a contiguous cache in rows of kl: what
\* T.view(..., kl, dim_emb) holds
Regroup(Tl, kl) ==
  Let2(FlatRows(Tl), CacheLen(Tl), LAMBDA rows, L :
    Tab(LAMBDA r :
          Tab(LAMBDA p : rows[(((r - 1) * kl + p - 1) \div L) + 1]
                             [(((r - 1) * kl + p - 1) % L) + 1], kl),
        (Len(rows) * L) \div kl))

\* torch.zeros(bsz, B, key_len, dim_emb) (lines 151, 157)
Zeros4(nb, Bn, kl) == View4(nb, Tab(LAMBDA r : Tab(LAMBDA p : Zero, kl), (nb * Bn)))

\* the second dimension of a cache of size (bsz, B, length, dim_emb)
BeamsOf(Tl) == Len(FlatRows(Tl)) \div Dim0(Tl)

\* T_tmp[b, idx_top_beams[b], :, :] (lines 153, 159) for the b-th batch row
\* and its ids ix: T_tmp is indexed with four indices, b and the ids are in
\* range; anything else raises
GatherFrom(tmp, b, ix) ==
  /\ Is4D(tmp) /\ b <= Dim0(tmp)
  /\ \A i \in 1..Len(ix) : ix[i] \in 0..(BeamsOf(tmp) - 1)

\* T[b, zero_to_B, :, :] = T_tmp[b, idx_top_beams[b], :, :] (lines 153, 159):
\* T too is indexed with four indices, b and the ids 0..B-1 are in range, and
\* the rows read are as long as the rows written or hold one vector (which is
\* then broadcast); anything else raises
GatherOk(Tl, tmp, b, ix) ==
  /\ GatherFrom(tmp, b, ix)
  /\ Is4D(Tl) /\ b <= Dim0(Tl) /\ Len(ix) <= BeamsOf(Tl)
  /\ (CacheLen(tmp) = CacheLen(Tl) \/ CacheLen(tmp) = 1)

\* the tensor T after the assignment of lines 153, 159 for batch row b
Gather(Tl, tmp, b, ix) ==
  Let3(BeamsOf(Tl), BeamsOf(tmp), CacheLen(Tl), LAMBDA Bt, Bs, L :
    View4(Dim0(Tl),
          Tab(LAMBDA r :
                IF ((r - 1) \div Bt) + 1 = b /\ ((r - 1) % Bt) + 1 <= Len(ix)
                THEN Tab(LAMBDA p :
                           FlatRows(tmp)[(b - 1) * Bs + ix[((r - 1) % Bt) + 1] + 1]
                                        [IF CacheLen(tmp) = 1 THEN 1 ELSE p], L)
                ELSE FlatRows(Tl)[r],
              Len(FlatRows(Tl)))))

\* myMHA(q_sa, K_sa, V_sa, nb_heads) of line 185 raises unless K_sa has three
\* dimensions (line 74) and a row for every query (lines 78, 86), and V_sa
\* holds as many elements as K_sa (several heads: the view of line 84) or has
\* the size of K_sa (one head: the bmm of line 95)
SelfAttOk(nq, Kl, Vl, heads) ==
  /\ Kl # None /\ ~Is4D(Kl)
  /\ Len(Kl) = nq
  /\ Vl # None
  /\ IF heads > 1 THEN Numel(Vl) = Numel(Kl)
     ELSE ~Is4D(Vl) /\ Len(Vl) = Len(Kl) /\ CacheLen(Vl) = CacheLen(Kl)

\* the vector lines 83-85 take for the value of key i (of n) of row r.
\* V.transpose(1,2).contiguous() is viewed as (rows*nb_heads, dim_emb/nb_heads,
\* n): component c of the vector is element ((r*dim_emb + c)*n + i) of the
\* transposed V_sa, counted from 0.  For a V_sa of the size of K_sa these are
\* the components of the cached value i of row r.  For another size each
\* component is some component of some cached vector: the digest is the
\* vector's when the components are those of one vector in their places,
\* Zero when they are all components of zero vectors, and made of the
\* components taken otherwise
ValueAt(Vl, r, i, n) ==
  Let1(Tab(LAMBDA c :
         Let1(((r - 1) * dim_emb + c - 1) * n + i - 1, LAMBDA f :
           IF Is4D(Vl)
           THEN Let2(BeamsOf(Vl), CacheLen(Vl), LAMBDA Bn, kl :
                  Let1(FlatRows(Vl)[(f \div (dim_emb * Bn * kl)) * Bn
                                      + ((f \div dim_emb) % Bn) + 1]
                                   [((f \div (dim_emb * Bn)) % kl) + 1], LAMBDA vec :
                    IF vec = Zero THEN 0 ELSE 1 + (f % dim_emb) + dim_emb * vec))
           ELSE Let1(CacheLen(Vl), LAMBDA nv :
                  Let1(Vl[(f \div (nv * dim_emb)) + 1][(f % nv) + 1], LAMBDA vec :
                    IF vec = Zero THEN 0
                    ELSE 1 + ((f \div nv) % dim_emb) + dim_emb * vec))), dim_emb),
       LAMBDA sy :
    IF \A c \in 1..dim_emb : sy[c] = 0 THEN Zero
    ELSE IF \A c \in 1..dim_emb : sy[c] = c + dim_emb * ((sy[1] - 1) \div dim_emb)
    THEN (sy[1] - 1) \div dim_emb
    ELSE (SumSeq(Tab(LAMBDA c : (17 * c * c + 1) * sy[c], dim_emb)) + 41) % 97)

\* the values myMHA weighs for row r of the queries
ValueRow(Kl, Vl, r) ==
  Let1(CacheLen(Kl), LAMBDA n : Tab(LAMBDA i : ValueAt(Vl, r, i, n), n))

\* the cached vectors of a cache, row after row
Cells(Tl) ==
  IF Tl = None THEN <<>>
  ELSE Let2(FlatRows(Tl), CacheLen(Tl), LAMBDA rows, L :
         Tab(LAMBDA e : rows[((e - 1) \div L) + 1][((e - 1) % L) + 1], (Len(rows) * L)))

\* the cache of the size of Tl that holds the vectors c
WithCells(Tl, c) ==
  Let1(CacheLen(Tl), LAMBDA L :
    Let1(Tab(LAMBDA r : SubSeq(c, (r - 1) * L + 1, r * L), Len(c) \div L), LAMBDA rows :
      IF Is4D(Tl) THEN View4(Dim0(Tl), rows) ELSE rows))

\* T[:, -segm:, :] (lines 182, 183) slices the second dimension: the entries
\* of a cache of size (rows, length, dim_emb), the beams of one of size (bsz,
\* B, length, dim_emb).  The vectors it keeps, as their places in T
WindowIdx(Tl, segm) ==
  Let3(Dim0(Tl),
       IF Is4D(Tl) THEN BeamsOf(Tl) ELSE CacheLen(Tl),
       IF Is4D(Tl) THEN CacheLen(Tl) ELSE 1, LAMBDA outer, mid, inner :
    Let1(Min(mid, segm), LAMBDA M :
      Tab(LAMBDA e : ((((e - 1) \div (M * inner)) * mid + (mid - M)
                        + (((e - 1) \div inner) % M)) * inner) + ((e - 1) % inner) + 1,
          (outer * M * inner))))

\* T[:, -segm:, :], a view of T
Window(Tl, segm) ==
  Let3(Cells(Tl), WindowIdx(Tl, segm),
       IF Is4D(Tl) THEN CacheLen(Tl) ELSE Min(CacheLen(Tl), segm), LAMBDA c, ix, L :
    Let1(Tab(LAMBDA r : Tab(LAMBDA p : c[ix[(r - 1) * L + p]], L), Len(ix) \div L),
         LAMBDA rows : IF Is4D(Tl) THEN View4(Dim0(Tl), rows) ELSE rows))

\* --------------------------------------------------- Transformer_decoder_net
\* reset_selfatt_keys_values: every cached layer is reset
StackReset(K) == Tab(LAMBDA l : LayerReset(K[l]), Len(K))

\* repeat_selfatt_keys_values(B)
StackRepeat(K, w) == Tab(LAMBDA l : LayerRepeat(K[l], w), Len(K))

RECURSIVE ReorderLayers(_, _, _, _, _)
\* the layers l, l+1, ... of reorder_selfatt_keys_values(t, idx_top_beams):
\* the layers before the one that raises stay reordered
ReorderLayers(l, K, V, tt, idx) ==
  IF l > Len(K) THEN [ok |-> TRUE, K |-> K, V |-> V]
  ELSE Let1(LayerReorderKV(K[l], V[l], tt, idx, segm_len), LAMBDA r :
         Let3([K EXCEPT ![l] = r.K], [V EXCEPT ![l] = r.V], l + 1, LAMBDA K2, V2, l2 :
           IF ~r.ok THEN [ok |-> FALSE, K |-> K2, V |-> V2]
           ELSE ReorderLayers(l2, K2, V2, tt, idx)))

\* reorder_selfatt_keys_values(t, idx_top_beams), lines 224-226
StackReorder(K, V, tt, idx) == ReorderLayers(1, K, V, tt, idx)

\* masked_fill(mask.unsqueeze(1), -1e9) on the weights of `rows` rows and
\* `heads` heads (lines 88-90): the mask, repeated for the heads, has as many
\* rows as the weights, or one row that is broadcast
MaskOk(masks, rows, heads) ==
  Len(masks) * heads = rows * heads \/ Len(masks) * heads = 1

\* the mask of row r
MaskRow(masks, r) == IF Len(masks) = 1 THEN masks[1] ELSE masks[r]

\* myMHA(q, K_att, V_att, heads, mask) raises unless K_att has a row for every
\* query (view, line 74; bmm, line 82) and the mask fits
CrossOk(h, Katt, masks, heads) == Len(Katt) = Len(h) /\ MaskOk(masks, Len(h), heads)

RECURSIVE DecLayers(_, _, _, _, _, _)
\* the nb_layers_decoder-1 cached layers of forward, from layer l on: each
\* appends to its cache (lines 175-183), then transforms the queries; a
\* statement that raises leaves what the layers assigned before it
DecLayers(l, h, Katt, masks, K, V) ==
  IF l > Len(K) THEN [ok |-> TRUE, h |-> h, K |-> K, V |-> V]
  ELSE Let2(Tab(LAMBDA r : Wk_selfatt(h[r]), Len(h)),
            Tab(LAMBDA r : Wv_selfatt(h[r]), Len(h)), LAMBDA k_sa, v_sa :
    IF K[l] # None /\ ~CatOk(K[l], Len(h))
    THEN [ok |-> FALSE, h |-> h, K |-> K, V |-> V]
    ELSE IF K[l] # None /\ ~CatOk(V[l], Len(h))
    THEN [ok |-> FALSE, h |-> h, K |-> [K EXCEPT ![l] = Cat(K[l], k_sa)], V |-> V]
    ELSE
         Let2(CacheAppend(K[l], k_sa, segm_len),
              CacheAppend(IF K[l] = None THEN None ELSE V[l], v_sa, segm_len),
              LAMBDA Kn, Vn :
           Let2([K EXCEPT ![l] = Kn], [V EXCEPT ![l] = Vn], LAMBDA K2, V2 :
             IF CacheLen(Kn) # CacheLen(Vn) \/ ~CrossOk(h, Katt, masks, nb_heads)
             THEN [ok |-> FALSE, h |-> h, K |-> K2, V |-> V2]
             ELSE
             Let2(Tab(LAMBDA r : LayerRow(h[r], Kn[r], Vn[r], Katt[r], l,
                                          MaskRow(masks, r)), Len(h)),
                  l + 1, LAMBDA hn, l2 : DecLayers(l2, hn, Katt, masks, K2, V2)))))

\* Transformer_decoder_net.forward followed by torch.log: the updated caches
\* and, per row, the log-probability of every node; the final layer has one
\* head (line 243)
Decoder(h, Katt, masks, K, V) ==
  Let1(DecLayers(1, h, Katt, masks, K, V), LAMBDA d :
    IF d.ok /\ CrossOk(h, Katt, masks, 1)
    THEN [ok |-> TRUE, K |-> d.K, V |-> d.V,
          logp |-> Tab(LAMBDA r : LogProbRow(d.h[r], Katt[r], MaskRow(masks, r)), Len(h))]
    ELSE [ok |-> FALSE, K |-> d.K, V |-> d.V, logp |-> <<>>])

\* ------------------------------------------------------------ selection
\* torch.argmax(v): the (0-based) index of the first maximal value
ArgMax(v) ==
  (CHOOSE i \in 1..Len(v) :
     \A j \in 1..Len(v) : v[j] < v[i] \/ (v[j] = v[i] /\ i <= j)) - 1

RECURSIVE TopKRec(_, _, _)
\* the ways to go on with k more indices once the indices `taken` are listed:
\* a largest remaining value comes next, any one of them when several are equal
TopKRec(v, k, taken) ==
  IF k = 0 THEN {<<>>}
  ELSE Let1((1..Len(v)) \ taken, LAMBDA C :
         Let2({i \in C : \A j \in C : v[j] <= v[i]}, k - 1, LAMBDA best, k2 :
           UNION {Let1(taken \cup {i}, LAMBDA taken2 :
                    {<<i - 1>> \o rest : rest \in TopKRec(v, k2, taken2)}) : i \in best}))

\* faulty variant of TopK: the first k indices, whatever the values
TopK_FirstK(v, k) == {Tab(LAMBDA i : i - 1, k)}

\* torch.topk(v, k)[1]: the (0-based) indices of the k largest values, largest
\* first.  The order of equal values is not specified: every order is an
\* outcome, so TopK is the set of the index lists torch.topk can return
TopK(v, k) == TopKRec(v, k, {})

RECURSIVE RowChoices(_)
\* torch.topk on a batch: one of the outcomes S[b] for every batch row b
RowChoices(S) ==
  IF S = <<>> THEN {<<>>}
  ELSE Let1(SubSeq(S, 1, Len(S) - 1), LAMBDA front :
         {Append(p, c) : p \in RowChoices(front), c \in S[Len(S)]})

\* (bsz, W, ...) viewed as (bsz*W, ...)
Flatten2(m) ==
  LET W == Len(m[1])
  IN Tab(LAMBDA r : m[((r - 1) \div W) + 1][((r - 1) % W) + 1], (Len(m) * W))

\* faulty variant of SetTrue: the chosen node is not marked
SetTrue_Noop(mask, j) == mask

\* mask[j] = True
SetTrue(mask, j) == [mask EXCEPT ![j + 1] = TRUE]

\* mask of a fresh run: only the start placeholder nb_nodes is visited
StartMask(n) == Tab(LAMBDA p : p = n + 1, (n + 1))

\* faulty variant of GatherRows: beam i keeps the row of the old beam i
GatherRows_InPlace(tmp, idx) == Tab(LAMBDA i : tmp[((i - 1) % Len(tmp)) + 1], Len(idx))

\* tmp[idx[0]], tmp[idx[1]], ...: the rows of tmp picked by the beam ids idx
\* (lines 453-454, 460-461, 493-494, 499-500)
GatherRows(tmp, idx) == Tab(LAMBDA i : tmp[idx[i] + 1], Len(idx))

\* faulty variant of BeamWidth0: the requested width is not clamped
BeamWidth0_NoClamp(BB, n) == BB

\* B_t0 = min(B, nb_nodes)
BeamWidth0(BB, n) == Min(BB, n)

\* faulty variant of BeamOf: the index is divided by nb_nodes
BeamOf_DivNodes(k, n) == k \div n

\* idx_top_beams = top_idx // (nb_nodes+1)
BeamOf(k, n) == k \div (n + 1)

\* idx_in_beams = top_idx - idx_top_beams * (nb_nodes+1)
NodeOf(k, n) == k - BeamOf(k, n) * (n + 1)

\* ---------------------------------------------------------------- inputs
\* a batch x is abstracted to one code per row (the row's city coordinates);
\* the rows of a batch are pairwise different
Batches == {Tab(LAMBDA b : s + b - 1, n) : n \in 1..MaxBsz, s \in 0..MaxSeed}

\* the caches of a freshly constructed decoder: K_sa = V_sa = None in every layer
FreshCache == Tab(LAMBDA l : None, nb_layers_decoder - 1)

\* ------------------------------------------------- the decoding loops
\* The loops of TSP_net.forward as functions of a record s of the caches (K, V)
\* and of the loop's locals; ok = FALSE when the iteration raised.  ops lists
\* the calls made on self.decoder: <<"reset", 0>>, <<"decoder", t>> (forward at
\* step t), <<"repeat", width>> and <<"reorder", t>>.
Blank(K, V) ==
  [ok |-> TRUE, K |-> K, V |-> V, t |-> 0, h_t |-> <<>>, mask |-> <<>>,
   tours |-> <<>>, sums |-> <<>>, B_t0 |-> 0, top_idx |-> <<>>, itb |-> <<>>,
   iib |-> <<>>, Katt |-> <<>>, ops |-> <<>>, pe |-> <<>>]

Failed(s, K, V) == [Blank(K, V) EXCEPT !.ok = FALSE, !.pe = s.pe]

\* self.PE[idx] raised IndexError
FailedRead(s, K, V, idx) == [Failed(s, K, V) EXCEPT !.pe = Append(s.pe, idx)]

\* lines 346-362: the start of greedy decoding; self.PE[0] is read (line 355),
\* then the caches are cleared (line 360)
GreedyEnter(s, xx, n) ==
  IF ~InTable(0) THEN FailedRead(s, s.K, s.V, 0)
  ELSE
  [s EXCEPT !.K = StackReset(s.K), !.V = StackReset(s.V), !.t = 0,
            !.h_t = Tab(LAMBDA b : Emb(xx[b], n, 0), Len(xx)),
            !.mask = Tab(LAMBDA b : StartMask(n), Len(xx)),
            !.tours = Tab(LAMBDA b : <<>>, Len(xx)),
            !.sums = Tab(LAMBDA b : <<>>, Len(xx)),
            !.ops = Append(s.ops, <<"reset", 0>>),
            !.pe = <<0>>]

\* one iteration of the greedy loop, lines 363-381
GreedyIter(s, xx) ==
  Let1(Decoder(s.h_t, s.Katt, s.mask, s.K, s.V), LAMBDA d :
    IF ~d.ok THEN Failed(s, d.K, d.V)
    ELSE IF ~InTable(PEIndex(s.t)) THEN FailedRead(s, d.K, d.V, PEIndex(s.t))
    ELSE Let1(Tab(LAMBDA b : ArgMax(d.logp[b]), Len(xx)), LAMBDA idx :
           [s EXCEPT
              !.K = d.K, !.V = d.V,
              !.sums = Tab(LAMBDA b : Append(s.sums[b], d.logp[b][idx[b] + 1]), Len(xx)),
              !.h_t = Tab(LAMBDA b : NextQuery(xx[b], idx[b], s.t), Len(xx)),
              !.tours = Tab(LAMBDA b : Append(s.tours[b], idx[b]), Len(xx)),
              !.mask = Tab(LAMBDA b : SetTrue(s.mask[b], idx[b]), Len(xx)),
              !.ops = Append(s.ops, <<"decoder", s.t>>),
              !.pe = Append(s.pe, PEIndex(s.t)),
              !.t = s.t + 1]))

RECURSIVE SumScores(_)
\* torch.stack(sumLogProbOfActions, dim=1).sum(dim=1) of one row
SumScores(s) == IF s = <<>> THEN 0 ELSE AddScore(Head(s), SumScores(Tail(s)))

\* faulty variant of BeamEnter: the caches are not cleared
BeamEnter_NoReset(s) == [s EXCEPT !.t = 0, !.pe = <<>>]

\* lines 390-395: the start of beam search; the caches are cleared
BeamEnter(s) ==
  [s EXCEPT !.K = StackReset(s.K), !.V = StackReset(s.V), !.t = 0,
            !.ops = Append(s.ops, <<"reset", 0>>), !.pe = <<>>]

\* beam search at t = 0, lines 399-430: one beam per batch row is expanded
\* into B_t0 = min(B, nb_nodes) beams, and every cache row is repeated B_t0
\* times.  The loop functions of beam search give the set of the records the
\* iteration can end in, one for every outcome of torch.topk
BeamIter0(s, xx, n, BB) ==
  IF ~InTable(0) THEN {FailedRead(s, s.K, s.V, 0)}
  ELSE
  Let3(Len(xx), BeamWidth0(BB, n), Zeros(n), LAMBDA nb, Bt, zeros :
    Let2(Tab(LAMBDA b : Emb(xx[b], n, 0), nb),
         Tab(LAMBDA b : StartMask(n), nb), LAMBDA h0, m0 :
      Let1(Decoder(h0, s.Katt, m0, s.K, s.V), LAMBDA d :
        IF ~d.ok \/ Bt > n + 1 THEN {Failed(s, d.K, d.V)}
        ELSE IF ~InTable(PEIndex(s.t))
        THEN {FailedRead([s EXCEPT !.pe = <<0>>], d.K, d.V, PEIndex(s.t))}
        ELSE {
               [s EXCEPT
                  !.top_idx = ti,
                  !.sums = Tab(LAMBDA b : Tab(LAMBDA i : d.logp[b][ti[b][i] + 1], Bt), nb),
                  !.mask = Tab(LAMBDA b : Tab(LAMBDA i : SetTrue(m0[b], ti[b][i]), Bt), nb),
                  !.tours = Tab(LAMBDA b : Tab(LAMBDA i :
                               [zeros EXCEPT ![s.t + 1] = ti[b][i]], Bt), nb),
                  !.h_t = Tab(LAMBDA b : Tab(LAMBDA i :
                               NextQuery(xx[b], ti[b][i], s.t), Bt), nb),
                  !.K = StackRepeat(d.K, Bt), !.V = StackRepeat(d.V, Bt),
                  !.Katt = RepeatInterleave(xx, Bt),
                  !.B_t0 = Bt,
                  !.ops = s.ops \o <<<<"decoder", s.t>>, <<"repeat", Bt>>>>,
                  !.pe = <<0, PEIndex(s.t)>>,
                  !.t = s.t + 1]
               : ti \in RowChoices(Tab(LAMBDA b : TopK(d.logp[b], Bt), nb))})))

\* faulty variant of FlatScores: every candidate is given the score of beam 0
FlatScores_FirstBeam(logp, sums, b, W, n) ==
  Tab(LAMBDA e :
     AddScore(logp[(b - 1) * W + ((e - 1) \div (n + 1)) + 1][((e - 1) % (n + 1)) + 1],
              sums[b][1]), (W * (n + 1)))

\* sum_scores_flatten of one batch row: score_t + sum_scores.unsqueeze(2) over
\* the W current beams, viewed as W*(nb_nodes+1) candidates
FlatScores(logp, sums, b, W, n) ==
  Tab(LAMBDA e :
     AddScore(logp[(b - 1) * W + ((e - 1) \div (n + 1)) + 1][((e - 1) % (n + 1)) + 1],
              sums[b][((e - 1) \div (n + 1)) + 1]), (W * (n + 1)))

\* the part lines 432-469 (t = 1) and 473-507 (t >= 2) share: the W current
\* beams of every batch row are expanded and the top B candidates kept
BeamExpand(s, xx, n, BB, W) ==
  Let3(Len(xx), Flatten2(s.h_t), Flatten2(s.mask), LAMBDA nb, h_flat, mask_flat :
    Let1(Decoder(h_flat, s.Katt, mask_flat, s.K, s.V), LAMBDA d :
      IF ~d.ok \/ BB > W * (n + 1) THEN {Failed(s, d.K, d.V)}
      ELSE IF ~InTable(PEIndex(s.t)) THEN {FailedRead(s, d.K, d.V, PEIndex(s.t))}
      ELSE
      Let1(Tab(LAMBDA b : FlatScores(d.logp, s.sums, b, W, n), nb), LAMBDA flat :
        {
          Let2(Tab(LAMBDA b : Tab(LAMBDA i : BeamOf(ti[b][i], n), BB), nb),
               Tab(LAMBDA b : Tab(LAMBDA i : NodeOf(ti[b][i], n), BB), nb),
               LAMBDA itb, iib :
            Let1(StackReorder(d.K, d.V, s.t, itb), LAMBDA ro :
            IF ~ro.ok THEN [Failed(s, ro.K, ro.V) EXCEPT !.pe = Append(s.pe, PEIndex(s.t))]
            ELSE [s EXCEPT
                    !.top_idx = ti, !.itb = itb, !.iib = iib,
                    !.sums = Tab(LAMBDA b : Tab(LAMBDA i : flat[b][ti[b][i] + 1], BB), nb),
                    !.mask = Tab(LAMBDA b :
                               Let1(GatherRows(s.mask[b], itb[b]), LAMBDA par :
                                 Tab(LAMBDA i : SetTrue(par[i], iib[b][i]), BB)), nb),
                    !.tours = Tab(LAMBDA b :
                                Let1(GatherRows(s.tours[b], itb[b]), LAMBDA par :
                                  Tab(LAMBDA i : [par[i] EXCEPT ![s.t + 1] = iib[b][i]],
                                      BB)), nb),
                    !.h_t = Tab(LAMBDA b : Tab(LAMBDA i :
                                 NextQuery(xx[b], iib[b][i], s.t), BB), nb),
                    !.K = ro.K, !.V = ro.V,
                    !.ops = s.ops \o <<<<"decoder", s.t>>, <<"reorder", s.t>>>>,
                    !.pe = Append(s.pe, PEIndex(s.t)),
                    !.t = s.t + 1]))
          : ti \in RowChoices(Tab(LAMBDA b : TopK(flat[b], BB), nb))})))

\* faulty variant of BeamIter1: the cross-attention keys stay repeated B_t0 times
BeamIter1_KeepKatt(s, xx, n, BB) == BeamExpand(s, xx, n, BB, s.B_t0)

\* beam search at t = 1, lines 432-471: from B_t0 beams to B beams
BeamIter1(s, xx, n, BB) ==
  {IF r.ok THEN [r EXCEPT !.Katt = RepeatInterleave(xx, BB)] ELSE r :
     r \in BeamExpand(s, xx, n, BB, s.B_t0)}

\* beam search at t >= 2, lines 473-507: B beams
BeamIterT(s, xx, n, BB) == BeamExpand(s, xx, n, BB, BB)

\* one iteration of `for t in range(nb_nodes)` of beam search, lines 396-507
BeamIter(s, xx, n, BB) ==
  IF s.t = 0 THEN BeamIter0(s, xx, n, BB)
  ELSE IF s.t = 1 THEN BeamIter1(s, xx, n, BB)
  ELSE BeamIterT(s, xx, n, BB)

\* ------------------------------------------------------------ the state
\* the caches and the loop locals as a record, and back
Cur ==
  [ok |-> TRUE, K |-> K_sa, V |-> V_sa, t |-> t, h_t |-> h_t,
   mask |-> mask_visited_nodes, tours |-> tours, sums |-> sum_scores,
   B_t0 |-> B_t0, top_idx |-> top_idx, itb |-> idx_top_beams,
   iib |-> idx_in_beams, Katt |-> K_att_decoder, ops |-> ops, pe |-> PE_read]

Install(r) ==
  /\ K_sa' = r.K /\ V_sa' = r.V /\ t' = r.t /\ h_t' = r.h_t
  /\ mask_visited_nodes' = r.mask /\ tours' = r.tours /\ sum_scores' = r.sums
  /\ B_t0' = r.B_t0 /\ top_idx' = r.top_idx /\ idx_top_beams' = r.itb
  /\ idx_in_beams' = r.iib /\ K_att_decoder' = r.Katt /\ ops' = r.ops
  /\ PE_read' = r.pe

\* an iteration that raised ends the forward pass: its locals are gone, the
\* caches stay as the iteration left them
Raise(r) == Install([Blank(r.K, r.V) EXCEPT !.pe = r.pe]) /\ pc' = "error"

Commit(r) ==
  IF r.ok THEN Install(r) /\ UNCHANGED pc
  ELSE Raise(r)

\* the start of a mode, which raises when self.PE has no row
Enter(r, mode) ==
  IF r.ok THEN Install(r) /\ pc' = mode
  ELSE Raise(r)

\* after construction: AutoRegressiveDecoderLayer.__init__ sets K_sa = V_sa = None
Constructed ==
  /\ dim_emb = 4 /\ nb_heads = 2
  /\ segm_len \in 0..MaxSegm
  /\ nb_layers_decoder \in 1..MaxLayers
  /\ K_sa = FreshCache
  /\ V_sa = FreshCache
  /\ pc = "idle"
  /\ x = <<>> /\ bsz = 0 /\ nb_nodes = 0 /\ B = 0
  /\ greedy = FALSE /\ beamsearch = FALSE /\ warm_start = FALSE
  /\ t = 0 /\ h_t = <<>> /\ mask_visited_nodes = <<>> /\ tours = <<>>
  /\ sum_scores = <<>> /\ B_t0 = 0 /\ top_idx = <<>> /\ idx_top_beams = <<>>
  /\ idx_in_beams = <<>> /\ K_att_decoder = <<>> /\ ops = <<>> /\ PE_read = <<>>
  /\ tours_greedy = <<>> /\ scores_greedy = <<>>
  /\ tours_beamsearch = <<>> /\ scores_beamsearch = <<>>
  /\ cities = <<>> /\ tour = <<>> /\ L_length = 0 /\ i_length = 0
  /\ first_cities = None /\ previous_cities = None /\ current_cities = None
  /\ runs = NoRuns

\* a model whose table of positional encodings has a row for every index the
\* largest instance reads
Init == Constructed /\ max_len_PE = MaxNodes + 1

\* faulty variant of Forward: the caches are cleared even when no mode is enabled
Forward_ResetsAlways(xx, n, BB, g, bs) ==
  /\ x' = xx /\ bsz' = Len(xx) /\ nb_nodes' = n /\ B' = BB
  /\ greedy' = g /\ beamsearch' = bs
  /\ warm_start' = (K_sa # FreshCache \/ V_sa # FreshCache)
  /\ tours_greedy' = <<Zeros(n), Zeros(n)>> /\ scores_greedy' = <<0, 0>>
  /\ tours_beamsearch' = <<Zeros(n), Zeros(n)>> /\ scores_beamsearch' = <<0, 0>>
  /\ \E s0 \in {[Blank(StackReset(K_sa), StackReset(V_sa)) EXCEPT !.Katt = xx]} :
       IF g THEN Enter(GreedyEnter(s0, xx, n), "greedy")
       ELSE IF bs THEN Install(BeamEnter(s0)) /\ pc' = "beam"
       ELSE Install(s0) /\ pc' = "ret"
  /\ UNCHANGED <<config, length, runs>>

\* TSP_net.forward(x, B, greedy, beamsearch), lines 313-362 / 390-395: the
\* encoder pass, the zero placeholders, and the start of the first enabled mode
Forward(xx, n, BB, g, bs) ==
  /\ x' = xx /\ bsz' = Len(xx) /\ nb_nodes' = n /\ B' = BB
  /\ greedy' = g /\ beamsearch' = bs
  /\ warm_start' = (K_sa # FreshCache \/ V_sa # FreshCache)
  /\ tours_greedy' = <<Zeros(n), Zeros(n)>> /\ scores_greedy' = <<0, 0>>
  /\ tours_beamsearch' = <<Zeros(n), Zeros(n)>> /\ scores_beamsearch' = <<0, 0>>
  /\ \E s0 \in {[Blank(K_sa, V_sa) EXCEPT !.Katt = xx]} :
       IF g THEN Enter(GreedyEnter(s0, xx, n), "greedy")
       ELSE IF bs THEN Install(BeamEnter(s0)) /\ pc' = "beam"
       ELSE Install(s0) /\ pc' = "ret"
  /\ UNCHANGED <<config, length, runs>>

\* one iteration of the greedy loop, lines 363-381
GreedyStep ==
  /\ pc = "greedy" /\ t < nb_nodes
  /\ \E r \in {GreedyIter(Cur, x)} : Commit(r)
  /\ UNCHANGED <<config, length, runs, args, outputs>>

\* the end of the greedy branch, lines 382-395: the greedy outputs, then the
\* start of beam search when it is enabled
GreedyEnd ==
  /\ pc = "greedy" /\ t = nb_nodes
  /\ tours_greedy' = tours
  /\ scores_greedy' = Tab(LAMBDA b : SumScores(sum_scores[b]), bsz)
  /\ IF beamsearch
     THEN Install(BeamEnter(Cur)) /\ pc' = "beam"
     ELSE pc' = "ret" /\ UNCHANGED <<cache, locals>>
  /\ UNCHANGED <<config, length, runs, args, tours_beamsearch, scores_beamsearch>>

\* beam search at t = 0, lines 399-430
BeamStep0 ==
  /\ pc = "beam" /\ t = 0 /\ t < nb_nodes
  /\ \E r \in BeamIter(Cur, x, nb_nodes, B) : Commit(r)
  /\ UNCHANGED <<config, length, runs, args, outputs>>

\* beam search at t = 1, lines 432-471
BeamStep1 ==
  /\ pc = "beam" /\ t = 1 /\ t < nb_nodes
  /\ \E r \in BeamIter(Cur, x, nb_nodes, B) : Commit(r)
  /\ UNCHANGED <<config, length, runs, args, outputs>>

\* beam search at t >= 2, lines 473-507
BeamStepT ==
  /\ pc = "beam" /\ t >= 2 /\ t < nb_nodes
  /\ \E r \in BeamIter(Cur, x, nb_nodes, B) : Commit(r)
  /\ UNCHANGED <<config, length, runs, args, outputs>>

\* lines 508-511: the outputs of beam search
BeamEnd ==
  /\ pc = "beam" /\ t = nb_nodes
  /\ sum_scores' = Tab(LAMBDA b : sum_scores[b][1], bsz)
  /\ tours_beamsearch' = tours
  /\ scores_beamsearch' = sum_scores'
  /\ pc' = "ret"
  /\ UNCHANGED <<config, length, runs, cache, args, t, h_t, mask_visited_nodes, tours, B_t0, top_idx,
                 idx_top_beams, idx_in_beams, K_att_decoder, ops, PE_read, tours_greedy,
                 scores_greedy>>

\* faulty variant of Return: the caches are cleared when forward returns
Return_ClearsCache ==
  /\ pc = "ret"
  /\ pc' = "done"
  /\ Install(Blank(StackReset(K_sa), StackReset(V_sa)))
  /\ UNCHANGED <<config, length, runs, args, outputs>>

\* line 513: forward returns its four outputs; its locals are gone
Return ==
  /\ pc = "ret"
  /\ pc' = "done"
  /\ Install(Blank(K_sa, V_sa))
  /\ UNCHANGED <<config, length, runs, args, outputs>>

\* one call of forward on a freshly constructed model
Call ==
  /\ pc = "idle"
  /\ \E xx \in Batches, n \in 1..MaxNodes, BB \in 1..MaxBeam, g \in BOOLEAN, bs \in BOOLEAN :
       /\ Len(xx) * BB <= MaxRows
       /\ Forward(xx, n, BB, g, bs)

Next ==
  \/ Call
  \/ GreedyStep
  \/ GreedyEnd
  \/ BeamStep0
  \/ BeamStep1
  \/ BeamStepT
  \/ BeamEnd
  \/ Return

Spec == Init /\ [][Next]_vars

\* beam search of one instance with a beam wider than the candidates of the
\* smaller instances
CallWide ==
  /\ pc = "idle"
  /\ \E sd \in 0..MaxSeed, n \in 1..WideNodes :
       Forward(<<sd>>, n, WideBeam, FALSE, TRUE)

\* an instance of at most two nodes ends before the steps t >= 2
NextWide ==
  \/ CallWide
  \/ BeamStep0
  \/ BeamStep1
  \/ BeamEnd
  \/ Return

SpecWide == Init /\ [][NextWide]_vars

\* the same calls on a decoder of three layers (two of them cached), with no
\* window or a window of 2: the model on which the cache rows are followed
InitCached == Init /\ nb_layers_decoder = 3 /\ segm_len \in {0, 2}

SpecCached == InitCached /\ [][Next]_vars

\* ----------------------------------------------------- a model used again
\* forward is called on a model whatever its earlier calls left in the caches
CallAgain ==
  /\ pc \in {"idle", "done", "error"}
  /\ \E n0 \in 1..MaxBsz, n \in 1..ReuseNodes, BB \in 1..ReuseBeam,
        g \in BOOLEAN, bs \in BOOLEAN :
       /\ n0 * BB <= MaxRows
       /\ Forward(Tab(LAMBDA b : b - 1, n0), n, BB, g, bs)

NextReuse ==
  \/ CallAgain
  \/ GreedyStep
  \/ GreedyEnd
  \/ BeamStep0
  \/ BeamStep1
  \/ BeamStepT
  \/ BeamEnd
  \/ Return

\* a decoder of three layers (two of them cached), with every window
InitReuse == Init /\ nb_layers_decoder = 3

SpecReuse == InitReuse /\ [][NextReuse]_vars

\* ------------------------------------------- the cache operations, called
\* directly on a Transformer_decoder_net and on its layers: resets at any time,
\* forward calls, and a repeat or a reorder after a forward call.  pc tells
\* which call came last (a reset, the same reset again, a forward call, another
\* call, a call that raised), and t counts the forward calls
ApiFrame == UNCHANGED <<config, length, runs, args, outputs, mask_visited_nodes, tours,
                        sum_scores, top_idx, idx_in_beams, K_att_decoder, ops,
                        PE_read>>

\* Transformer_decoder_net.reset_selfatt_keys_values()
ApiReset ==
  /\ K_sa' = StackReset(K_sa) /\ V_sa' = StackReset(V_sa)
  /\ pc' = IF pc \in {"reset", "reset_again"} THEN "reset_again" ELSE "reset"
  /\ idx_top_beams' = <<>>
  /\ h_t' = <<>> /\ UNCHANGED t
  /\ B_t0' = 0
  /\ ApiFrame

LayerTag(l) == IF l = 1 THEN "layer1_reset" ELSE "layer2_reset"
LayerTagAgain(l) == IF l = 1 THEN "layer1_reset_again" ELSE "layer2_reset_again"

\* decoder_layers[l].reset_selfatt_keys_values()
ApiLayerReset ==
  /\ \E l \in 1..Len(K_sa) :
       /\ K_sa' = [K_sa EXCEPT ![l] = LayerReset(K_sa[l])]
       /\ V_sa' = [V_sa EXCEPT ![l] = LayerReset(V_sa[l])]
       /\ pc' = IF pc \in {LayerTag(l), LayerTagAgain(l)}
                THEN LayerTagAgain(l) ELSE LayerTag(l)
  /\ idx_top_beams' = <<>>
  /\ h_t' = <<>> /\ UNCHANGED t
  /\ B_t0' = 0
  /\ ApiFrame

\* Transformer_decoder_net.forward on nr query rows (row r of input r-1, at its
\* node 0), with the encoder's output and a mask of as many rows, each layer
\* appending one entry per row; h_t holds the queries of a forward call, and
\* is empty after another call
ApiStep ==
  /\ t < ApiSteps
  /\ \E nr \in 1..ApiRows :
       \E h \in {Tab(LAMBDA r : Emb(r - 1, 0, 0), nr)} :
         \E d \in {Decoder(h, Tab(LAMBDA r : r - 1, nr),
                            Tab(LAMBDA r : StartMask(2), nr), K_sa, V_sa)} :
            /\ h_t' = h
            /\ K_sa' = d.K /\ V_sa' = d.V
            /\ pc' = IF d.ok THEN "stepped" ELSE "raised"
  /\ t' = t + 1
  /\ idx_top_beams' = <<>>
  /\ B_t0' = 0
  /\ ApiFrame

\* Transformer_decoder_net.forward on nr >= 2 query rows with the encoder's
\* output for one row, or with a mask of one row
ApiStepArgs ==
  /\ t < ApiSteps
  /\ \E nr \in 2..ApiRows, one_k \in BOOLEAN :
       \E h \in {Tab(LAMBDA r : Emb(r - 1, 0, 0), nr)} :
         \E d \in {Decoder(h, Tab(LAMBDA r : r - 1, IF one_k THEN 1 ELSE nr),
                            Tab(LAMBDA r : StartMask(2), IF one_k THEN nr ELSE 1),
                            K_sa, V_sa)} :
            /\ h_t' = h
            /\ K_sa' = d.K /\ V_sa' = d.V
            /\ pc' = IF d.ok THEN "stepped_one_row" ELSE "raised_one_row"
  /\ t' = t + 1
  /\ idx_top_beams' = <<>>
  /\ B_t0' = 0
  /\ ApiFrame

\* Transformer_decoder_net.repeat_selfatt_keys_values(w); B_t0 holds the width
\* of a repeat call, and is 0 otherwise
ApiRepeat ==
  /\ pc = "stepped"
  /\ \A l \in 1..Len(K_sa) : K_sa[l] # None
  /\ \E w \in 1..ApiRows :
       /\ \A l \in 1..Len(K_sa) : Len(K_sa[l]) * w <= ApiRows
       /\ K_sa' = StackRepeat(K_sa, w) /\ V_sa' = StackRepeat(V_sa, w)
       /\ B_t0' = w
  /\ pc' = "repeated"
  /\ idx_top_beams' = <<>>
  /\ h_t' = <<>> /\ UNCHANGED t
  /\ ApiFrame

\* Transformer_decoder_net.reorder_selfatt_keys_values(t - 1, idx) after the
\* t-th forward call, idx holding Bn beam ids for each of nb batch rows;
\* idx_top_beams holds the argument of a reorder call, and is empty otherwise
ApiReorder ==
  /\ pc = "stepped"
  /\ \E nb \in 1..2, Bn \in 1..2 :
       \E idx \in [1..nb -> [1..Bn -> 0..1]] :
          /\ nb * Bn <= ApiRows
          /\ idx_top_beams' = Tab(LAMBDA b : Tab(LAMBDA k : idx[b][k], Bn), nb)
          /\ \E ro \in {StackReorder(K_sa, V_sa, t - 1, idx)} :
                /\ K_sa' = ro.K /\ V_sa' = ro.V
                /\ pc' = IF ro.ok THEN "reordered" ELSE "reorder_raised"
  /\ h_t' = <<>> /\ UNCHANGED t
  /\ B_t0' = 0
  /\ ApiFrame

NextApi ==
  \/ ApiReset
  \/ ApiLayerReset
  \/ ApiStep
  \/ ApiStepArgs
  \/ ApiRepeat
  \/ ApiReorder

\* a decoder of one layer (none cached) or of three layers (two of them
\* cached), with no window or a window of 1
InitApi == Init /\ nb_layers_decoder \in {1, 3} /\ segm_len \in {0, 1}

SpecApi == InitApi /\ [][NextApi]_vars

\* ------------------------------------------------- compute_tour_length
\* Cities are points <<px, py>> with integer coordinates, on a line or on the
\* corners of a 3 x 4 rectangle, so that every distance is an integer and
\* sqrt is exact.  One batch row is followed (the rows do not interact).
LinePoint(k) == <<k - 1, 0>>
RectPoint(k) ==
  IF k % 4 = 1 THEN <<0, 0>> ELSE IF k % 4 = 2 THEN <<3, 0>>
  ELSE IF k % 4 = 3 THEN <<3, 4>> ELSE <<0, 4>>

Instances ==
  {Tab(LAMBDA k : LinePoint(k), n) : n \in 1..MaxCities}
    \cup {Tab(LAMBDA k : RectPoint(k), n) : n \in 1..MaxCities}

\* sqrt of a perfect square
Sqrt(d) == CHOOSE r \in 0..d : r * r = d

\* (p - q).pow(2).sum(dim=1).sqrt()
Dist(p, q) ==
  Sqrt((p[1] - q[1]) * (p[1] - q[1]) + (p[2] - q[2]) * (p[2] - q[2]))

\* compute_tour_length(x, tour), lines 650-655: up to the loop.  The tour has
\* any number of positions; nb_nodes is the number of cities (x.shape[1]).
LengthCall ==
  /\ pc = "idle"
  /\ \E c \in Instances : \E m \in 1..MaxCities : \E tr \in [1..m -> 0..(Len(c) - 1)] :
       /\ cities' = c
       /\ tour' = Tab(LAMBDA k : tr[k], m)
       /\ first_cities' = c[tr[1] + 1]
       /\ previous_cities' = c[tr[1] + 1]
  /\ current_cities' = None
  /\ L_length' = 0
  /\ i_length' = 1
  /\ pc' = "length_loop"
  /\ UNCHANGED <<config, cache, args, locals, outputs, runs>>

\* one iteration of `for i in range(1, nb_nodes)`, lines 657-661; tour[:, i]
\* raises an IndexError past the last tour position
LengthStep ==
  /\ pc = "length_loop" /\ i_length < Len(cities)
  /\ IF i_length + 1 > Len(tour)
     THEN /\ pc' = "length_raised"
          /\ UNCHANGED <<L_length, i_length, previous_cities, current_cities>>
     ELSE /\ current_cities' = cities[tour[i_length + 1] + 1]
          /\ L_length' = L_length + Dist(cities[tour[i_length + 1] + 1], previous_cities)
          /\ previous_cities' = cities[tour[i_length + 1] + 1]
          /\ i_length' = i_length + 1
          /\ UNCHANGED pc
  /\ UNCHANGED <<config, cache, args, locals, outputs, runs, cities, tour, first_cities>>

\* lines 662-664: the closing edge and the return; current_cities is not
\* bound when the loop body never ran
LengthClose ==
  /\ pc = "length_loop" /\ i_length >= Len(cities)
  /\ IF current_cities = None
     THEN pc' = "length_raised" /\ UNCHANGED L_length
     ELSE pc' = "length_returned" /\ L_length' = L_length + Dist(current_cities, first_cities)
  /\ UNCHANGED <<config, cache, args, locals, outputs, runs, cities, tour, i_length,
                 first_cities, previous_cities, current_cities>>

NextLength ==
  \/ LengthCall
  \/ LengthStep
  \/ LengthClose

InitLength == Init /\ nb_layers_decoder = 1 /\ segm_len = 0

SpecLength == InitLength /\ [][NextLength]_vars

\* ------------------------------------------------- construction
\* faulty variant of Divisible: the check is left out
Divisible_Always(d, h) == TRUE

\* Transformer_encoder_net.__init__, line 16: the condition of the assert
Divisible(d, h) == d = h * (d \div h)

\* generate_positional_encoding(d_model, max_len), called at line 311: of the
\* d_model columns of pe, pe[:, 0::2] takes the even ones and pe[:, 1::2] the
\* odd ones; div_term, and so sin/cos(position * div_term), has one column
\* for every even index below d_model
EvenColumns(d) == (d + 1) \div 2

\* pe[:, cols] = values (lines 260, 261): the values are expanded to the
\* columns assigned, a single column to any number of them; any other
\* difference raises RuntimeError
AssignOk(cols, values) == values = cols \/ values = 1

\* generate_positional_encoding returns (line 262) and does not raise
PositionalEncodingOk(d) ==
  /\ AssignOk(EvenColumns(d), EvenColumns(d))
  /\ AssignOk(d \div 2, EvenColumns(d))

\* TSP_net(...): the encoder is built first (line 302) and its assert stops the
\* construction; otherwise the decoder's layers are built with no cache
\* (line 308) and the table of positional encodings is generated last (line
\* 311); an exception of either leaves no model object
Construct ==
  /\ pc = "new"
  /\ \E d \in 1..MaxDim, h \in 1..MaxHeads, nl \in 1..MaxLayers, sl \in 0..MaxSegm,
        ml \in 1..(MaxNodes + 1) :
       /\ dim_emb' = d /\ nb_heads' = h
       /\ IF ~Divisible(d, h)
          THEN /\ pc' = "assert_error"
               /\ UNCHANGED <<nb_layers_decoder, segm_len, max_len_PE, K_sa, V_sa>>
          ELSE IF ~PositionalEncodingOk(d)
          THEN /\ pc' = "pe_error"
               /\ UNCHANGED <<nb_layers_decoder, segm_len, max_len_PE, K_sa, V_sa>>
          ELSE /\ nb_layers_decoder' = nl /\ segm_len' = sl /\ max_len_PE' = ml
               /\ K_sa' = Tab(LAMBDA l : None, nl - 1)
               /\ V_sa' = Tab(LAMBDA l : None, nl - 1)
               /\ pc' = "idle"
  /\ UNCHANGED <<args, locals, outputs, length, runs>>

NextBuild == Construct

\* before the constructor is called there is no model object
InitBuild ==
  /\ dim_emb = 0 /\ nb_heads = 0
  /\ segm_len = 0 /\ nb_layers_decoder = 0
  /\ max_len_PE = 0
  /\ K_sa = <<>> /\ V_sa = <<>>
  /\ pc = "new"
  /\ x = <<>> /\ bsz = 0 /\ nb_nodes = 0 /\ B = 0
  /\ greedy = FALSE /\ beamsearch = FALSE /\ warm_start = FALSE
  /\ t = 0 /\ h_t = <<>> /\ mask_visited_nodes = <<>> /\ tours = <<>>
  /\ sum_scores = <<>> /\ B_t0 = 0 /\ top_idx = <<>> /\ idx_top_beams = <<>>
  /\ idx_in_beams = <<>> /\ K_att_decoder = <<>> /\ ops = <<>> /\ PE_read = <<>>
  /\ tours_greedy = <<>> /\ scores_greedy = <<>>
  /\ tours_beamsearch = <<>> /\ scores_beamsearch = <<>>
  /\ cities = <<>> /\ tour = <<>> /\ L_length = 0 /\ i_length = 0
  /\ first_cities = None /\ previous_cities = None /\ current_cities = None
  /\ runs = NoRuns

SpecBuild == InitBuild /\ [][NextBuild]_vars

\* ------------------------------------------------- index unravel
\* lines 446-447 and 487-488 applied to one flattened index k of the
\* W * (nb_nodes + 1) candidates of one batch row (B_t0 holds W)
Unravel ==
  /\ pc = "idle"
  /\ \E n \in 1..MaxNodes, W \in 1..MaxBeam :
       \E k \in 0..(W * (n + 1) - 1) :
          /\ nb_nodes' = n /\ B_t0' = W
          /\ top_idx' = <<<<k>>>>
          /\ idx_top_beams' = <<<<BeamOf(k, n)>>>>
          /\ idx_in_beams' = <<<<NodeOf(k, n)>>>>
  /\ pc' = "unravelled"
  /\ UNCHANGED <<config, cache, length, runs, outputs, x, bsz, B, greedy, beamsearch, warm_start,
                 t, h_t, mask_visited_nodes, tours, sum_scores, K_att_decoder, ops,
                 PE_read>>

NextUnravel == Unravel

SpecUnravel == InitLength /\ [][NextUnravel]_vars

\* ------------------------------------------------- two runs, one decoder
\* Two decoding runs (two callers, e.g. threads) use the same
\* Transformer_decoder_net, which holds no lock.  A run is what TSP_net.forward
\* does with the decoder for a batch of RunRows instances of RunSteps nodes: a
\* greedy run resets the caches and calls forward once per node (lines
\* 360-365); a beam run resets, calls forward, repeats the caches for its beams
\* and then follows every forward with a reorder (lines 393-507).  What a run
\* passes to a call comes from what its calls returned before: the query and
\* the mask from the nodes it chose, idx_top_beams from its scores.
\* A call is not one step.  self.K_sa and self.V_sa are read and assigned by
\* separate instructions, and the other run can execute between any two of
\* them: an assignment self.K_sa = f(self.K_sa) first reads the attribute and
\* computes (one step, with the statements before it that touch locals only)
\* and later assigns (another step); self.K_sa[b, ...] = ... reads the
\* attribute, then writes into the tensor it read; the call of line 185 reads
\* self.K_sa, then self.V_sa.  A view or a slice shares the storage of the
\* tensor it was taken from, so a write into one shows in the other.
\*   runs.st     "idle", "run" (from the reset on), "finished", "raised"
\*   runs.mode   "greedy" or "beam"
\*   runs.done   the calls the run has completed, runs.t the forwards among them
\*   runs.h_t, runs.mask, runs.sums, runs.itb    locals of TSP_net.forward
\*   runs.loc    the locals of the call the run is in (op = "none" between
\*               calls): ph = 1 when the run has read the attribute of its
\*               statement and holds the value ref that it assigns, writes
\*               into or attends to next; al: ref shares the storage of the
\*               tensor the attribute names now, rpos: where the vectors of
\*               ref lie in that storage
\*   runs.pos    where the vectors of a cache lie in its storage, for the
\*               caches that are a part of a storage another tensor shares
\*   runs.clean  no step of the other run came since the run's reset began
OtherRun(who) == 3 - who

\* the call a run makes after `done` completed calls
RunCall(mode, done) ==
  IF done = 0 THEN "reset"
  ELSE IF mode = "greedy" THEN "forward"
  ELSE IF done = 2 THEN "repeat"
  ELSE IF done % 2 = 1 THEN "forward"
  ELSE "reorder"

\* the number of calls of a whole run
RunCalls(mode) == IF mode = "greedy" THEN RunSteps + 1 ELSE 2 * RunSteps + 1

\* x of a run: RunRows instances of its own, whose nodes have different
\* probabilities at every step of the run alone
RunBatch(who) == Tab(LAMBDA b : RunRows * who + b, RunRows)

\* lines 346-358, 399-406: the query and the mask of step 0
RunStart(who) ==
  [h_t |-> Tab(LAMBDA b : Emb(RunBatch(who)[b], RunSteps, 0), RunRows),
   mask |-> Tab(LAMBDA b : StartMask(RunSteps), RunRows),
   sums |-> <<>>, itb |-> <<>>]

\* K_att_decoder: the encoder row of every instance, once per beam (lines 333,
\* 429, 470)
RunInputs(who, width) ==
  Tab(LAMBDA r : RunBatch(who)[((r - 1) \div (width \div RunRows)) + 1], width)

\* lines 366-378, 410-427, 438-467, 478-505: what a run keeps of step tt once
\* the decoder has returned logp: the next queries and masks, one row per beam,
\* the cumulative scores and idx_top_beams; one record for every outcome of
\* torch.topk
RunChoice(who, md, tt, logp, hm, sm) ==
  Let2(RunBatch(who), Len(hm) \div RunRows, LAMBDA xx, W :
    IF md = "greedy"
    THEN Let1(Tab(LAMBDA b : ArgMax(logp[b]), RunRows), LAMBDA idx :
           {[h_t |-> Tab(LAMBDA b : NextQuery(xx[b], idx[b], tt), RunRows),
             mask |-> Tab(LAMBDA b : SetTrue(hm[b], idx[b]), RunRows),
             sums |-> <<>>, itb |-> <<>>]})
    ELSE IF tt = 0
    THEN Let1(BeamWidth0(RunBeam, RunSteps), LAMBDA Bt :
          {[h_t |-> Tab(LAMBDA r : NextQuery(xx[((r - 1) \div Bt) + 1],
                                            ti[((r - 1) \div Bt) + 1][((r - 1) % Bt) + 1], tt),
                        (RunRows * Bt)),
            mask |-> Tab(LAMBDA r : SetTrue(hm[((r - 1) \div Bt) + 1],
                                            ti[((r - 1) \div Bt) + 1][((r - 1) % Bt) + 1]),
                         (RunRows * Bt)),
            sums |-> Tab(LAMBDA b : Tab(LAMBDA i : logp[b][ti[b][i] + 1], Bt), RunRows),
            itb |-> <<>>]
             : ti \in RowChoices(Tab(LAMBDA b : TopK(logp[b], Bt), RunRows))})
    ELSE Let1(Tab(LAMBDA b : FlatScores(logp, sm, b, W, RunSteps), RunRows), LAMBDA flat :
          {[h_t |-> Tab(LAMBDA r : NextQuery(xx[((r - 1) \div RunBeam) + 1],
                                            NodeOf(ti[((r - 1) \div RunBeam) + 1]
                                                     [((r - 1) % RunBeam) + 1], RunSteps), tt),
                        (RunRows * RunBeam)),
            mask |-> Tab(LAMBDA r :
                            Let2(((r - 1) \div RunBeam) + 1,
                                 ti[((r - 1) \div RunBeam) + 1][((r - 1) % RunBeam) + 1],
                                 LAMBDA b, k :
                              SetTrue(hm[(b - 1) * W + BeamOf(k, RunSteps) + 1],
                                      NodeOf(k, RunSteps))),
                         (RunRows * RunBeam)),
            sums |-> Tab(LAMBDA b : Tab(LAMBDA i : flat[b][ti[b][i] + 1], RunBeam), RunRows),
            itb |-> Tab(LAMBDA b : Tab(LAMBDA i : BeamOf(ti[b][i], RunSteps), RunBeam),
                        RunRows)]
             : ti \in RowChoices(Tab(LAMBDA b : TopK(flat[b], RunBeam), RunRows))}))

\* the first statement of a call that touches the caches
FirstLine(op) ==
  IF op = "reset" THEN 136
  ELSE IF op = "forward" THEN 175
  ELSE IF op = "repeat" THEN 164
  ELSE 148

\* the locals of a run when its next call enters the first layer
RunEnters(who) ==
  Let1(RunCall(runs.mode[who], runs.done[who]), LAMBDA c :
    [NoLocals EXCEPT
       !.op = c, !.line = FirstLine(c), !.l = 1,
       !.h = IF c = "forward" THEN runs.h_t[who] ELSE <<>>])

\* the locals of a run: those of the call it is in, or of the call it makes next
Loc(who) == IF runs.loc[who].op = "none" THEN RunEnters(who) ELSE runs.loc[who]

\* run `who` is at one of `lines` of a call `op` (the call it is in, or the call
\* it makes next, at its first line), before (ph = 0) or after (ph = 1) it has
\* read the attribute
At(who, op, lines, ph) ==
  /\ runs.st[who] \in {"idle", "run"}
  /\ IF runs.loc[who].op = "none"
     THEN /\ RunCall(runs.mode[who], runs.done[who]) = op
          /\ FirstLine(op) \in lines
          /\ ph = 0
     ELSE /\ runs.loc[who].op = op
          /\ runs.loc[who].line \in lines
          /\ runs.loc[who].ph = ph

\* the statements of K_sa; the others are the same statements of V_sa
OnK(line) == line \in {136, 148, 149, 150, 151, 153, 154, 164, 176, 179, 182, 185}

\* self.K_sa (k) or self.V_sa of layer l
Slot(l, k) == IF k THEN K_sa[l] ELSE V_sa[l]

\* where the vectors of the cache lie in its storage: one after the other
\* unless the cache is a part of a larger tensor
SlotPos(l, k) ==
  IF \E e \in runs.pos : e.l = l /\ e.k = k
  THEN (CHOOSE e \in runs.pos : e.l = l /\ e.k = k).p
  ELSE Tab(LAMBDA e : e, Numel(Slot(l, k)))

\* the value that run o has read shares the storage of the cache (l, k)
Shares(r, o, l, k) ==
  /\ r.loc[o].ph = 1 /\ r.loc[o].al
  /\ r.loc[o].l = l /\ OnK(r.loc[o].line) = k

\* self.K_sa = val (k) or self.V_sa = val in layer l
Assign(l, k, val) ==
  IF k THEN K_sa' = [K_sa EXCEPT ![l] = val] /\ UNCHANGED V_sa
  ELSE V_sa' = [V_sa EXCEPT ![l] = val] /\ UNCHANGED K_sa

\* the attribute (l, k) names another tensor, assigned by `who`: its vectors
\* lie at p, and sh tells whether it shares the storage of the tensor named
\* before, without which a value the other run has read of this attribute
\* does not share the storage of the cache any more
Rebound(who, l, k, p, sh) ==
  Let1(OtherRun(who), LAMBDA o :
    [runs EXCEPT
       !.loc[o].al = @ /\ (sh \/ ~(runs.loc[o].l = l /\ OnK(runs.loc[o].line) = k)),
       !.loc[o].rpos = IF sh \/ ~(runs.loc[o].l = l /\ OnK(runs.loc[o].line) = k)
                       THEN @ ELSE <<>>,
       !.pos = {e \in @ : ~(e.l = l /\ e.k = k)}
                 \cup (IF sh /\ p # Tab(LAMBDA e : e, Len(p))
                       THEN {[l |-> l, k |-> k, p |-> p]} ELSE {})])

\* the vectors of a tensor of shared storage after a write through a tensor
\* with the vectors wc at wp: a vector that lies where one of wc does is that
\* one
SyncTo(Tl, pos, wp, wc) ==
  IF Tl = None THEN None
  ELSE Let2(Cells(Tl), {j \in 1..Len(wp) : \E m \in 1..Len(pos) : pos[m] = wp[j]},
            LAMBDA c, hit :
         WithCells(Tl, Tab(LAMBDA m :
                             IF \E j \in hit : wp[j] = pos[m]
                             THEN wc[CHOOSE j \in hit : wp[j] = pos[m]]
                             ELSE c[m], Len(c))))

RunFrame == UNCHANGED <<config, length, args, outputs, locals, pc>>

\* what is kept of the runs when `who` has executed a step: where a cache
\* lies in its storage while a value that was read shares it, and of the other
\* run its record until it has ended
Kept(r, who) ==
  Let2(OtherRun(who),
       {e \in r.pos : \E w \in 1..2 : Shares(r, w, e.l, e.k)}, LAMBDA o, ps :
    IF r.st[o] \in {"finished", "raised"}
    THEN [r EXCEPT !.mode[o] = "greedy", !.t[o] = 0, !.done[o] = 0,
                   !.h_t[o] = <<>>, !.mask[o] = <<>>, !.sums[o] = <<>>, !.itb[o] = <<>>,
                   !.clean[o] = FALSE, !.pos = ps]
    ELSE [r EXCEPT !.clean[o] = @ /\ r.st[o] = "idle", !.pos = ps])

\* the value a run holds between the two steps of a statement
Holds(lc, val, p, sh) ==
  [lc EXCEPT !.ph = 1, !.ref = val, !.rpos = IF sh THEN p ELSE <<>>, !.al = sh]

\* the statement is at an end and the call goes on at `line`
Onto(lc, line) ==
  [lc EXCEPT !.line = line, !.ph = 0, !.ref = None, !.rpos = <<>>, !.al = FALSE]

\* the step is executed and the call goes on with the locals lc
Goes(base, who, lc) ==
  /\ runs' = Kept([base EXCEPT !.st[who] = "run", !.loc[who] = lc], who)
  /\ RunFrame

\* the step is executed and the call returns; ch is what TSP_net.forward keeps
\* of a forward
Returns(base, who, op, ch) ==
  /\ runs' = Kept([base EXCEPT
                     !.st[who] = IF base.done[who] + 1 = RunCalls(base.mode[who])
                                 THEN "finished" ELSE "run",
                     !.done[who] = @ + 1,
                     !.t[who] = IF op = "forward" THEN @ + 1 ELSE @,
                     !.h_t[who] = IF op = "forward" THEN ch.h_t ELSE @,
                     !.mask[who] = IF op = "forward" THEN ch.mask ELSE @,
                     !.sums[who] = IF op = "forward" THEN ch.sums ELSE @,
                     !.itb[who] = IF op = "forward" THEN ch.itb ELSE @,
                     !.loc[who] = NoLocals], who)
  /\ RunFrame

\* the step raises: the call, and with it the run, ends; the caches keep what
\* was assigned before
Raises(who) ==
  /\ runs' = Kept([runs EXCEPT !.st[who] = "raised", !.loc[who] = NoLocals], who)
  /\ UNCHANGED <<K_sa, V_sa>>
  /\ RunFrame

\* the last statement of a layer of reset, repeat or reorder is executed: the
\* loop of the stack (lines 220, 225, 230) goes to the next layer or ends
NextLayer(base, who, lc) ==
  IF lc.l < Len(K_sa)
  THEN Goes(base, who, [NoLocals EXCEPT !.op = lc.op, !.line = FirstLine(lc.op),
                                        !.l = lc.l + 1])
  ELSE Returns(base, who, lc.op, NoLocals)

\* self.K_sa = None (line 136), self.V_sa = None (line 137), of the layer the
\* loop of lines 220-221 is at; the first statement of a run's reset starts
\* the run; the run that starts first is called run 1
RunResetStmt ==
  \E who \in 1..2 :
    /\ At(who, "reset", {136, 137}, 0)
    /\ who = 2 => runs.st[1] # "idle"
    /\ \E md \in IF runs.st[who] = "idle" THEN {"greedy", "beam"} ELSE {runs.mode[who]} :
       \E lc \in {Loc(who)} :
         /\ Assign(lc.l, OnK(lc.line), LayerReset(Slot(lc.l, OnK(lc.line))))
         /\ \E base \in {[Rebound(who, lc.l, OnK(lc.line), <<>>, FALSE) EXCEPT
                            !.mode[who] = md,
                            !.h_t[who] = RunStart(who).h_t,
                            !.mask[who] = RunStart(who).mask]} :
              IF lc.line = 136 THEN Goes(base, who, Onto(lc, 137))
              ELSE NextLayer(base, who, lc)

\* if self.K_sa is None (line 175), after the projections of lines 168-173
RunTest ==
  \E who \in 1..2 :
    /\ At(who, "forward", {175}, 0)
    /\ \E lc \in {Loc(who)} :
         /\ Goes(runs, who, Onto(lc, IF K_sa[lc.l] = None THEN 176 ELSE 179))
         /\ UNCHANGED <<K_sa, V_sa>>

\* the line after the cache is extended: the window if there is one
AfterCat == IF segm_len # 0 THEN 182 ELSE 185

\* self.K_sa = k_sa (line 176), self.V_sa = v_sa (line 177)
RunAssign ==
  \E who \in 1..2 :
    /\ At(who, "forward", {176, 177}, 0)
    /\ \E lc \in {Loc(who)} :
         /\ Assign(lc.l, OnK(lc.line),
                   Cat(None, Tab(LAMBDA r : IF lc.line = 176 THEN Wk_selfatt(lc.h[r])
                                            ELSE Wv_selfatt(lc.h[r]), Len(lc.h))))
         /\ Goes(Rebound(who, lc.l, OnK(lc.line), <<>>, FALSE), who,
                 Onto(lc, IF lc.line = 176 THEN 177 ELSE AfterCat))

\* torch.cat([self.K_sa, k_sa], dim=1) of line 179 and the same for V_sa
\* (line 180): the attribute is read and the new tensor made; torch.cat raises
\* on None and on a tensor of other rows
RunCat ==
  \E who \in 1..2 :
    /\ At(who, "forward", {179, 180}, 0)
    /\ \E lc \in {Loc(who)} :
       \E Tl \in {Slot(lc.l, OnK(lc.line))} :
         IF CatOk(Tl, Len(lc.h))
         THEN /\ UNCHANGED <<K_sa, V_sa>>
              /\ Goes(runs, who,
                      Holds(lc, Cat(Tl, Tab(LAMBDA r : IF lc.line = 179 THEN Wk_selfatt(lc.h[r])
                                                       ELSE Wv_selfatt(lc.h[r]), Len(lc.h))),
                            <<>>, FALSE))
         ELSE Raises(who)

\* self.K_sa[:, -self.segm_len:, :] of line 182 and the same for V_sa (line
\* 183): the attribute is read and sliced; None cannot be sliced
RunWindow ==
  \E who \in 1..2 :
    /\ At(who, "forward", {182, 183}, 0)
    /\ \E lc \in {Loc(who)} :
       \E Tl \in {Slot(lc.l, OnK(lc.line))} :
         IF Tl = None THEN Raises(who)
         ELSE /\ UNCHANGED <<K_sa, V_sa>>
              /\ \E ix \in {WindowIdx(Tl, segm_len)}, sp \in {SlotPos(lc.l, OnK(lc.line))} :
                   Goes(runs, who,
                        Holds(lc, Window(Tl, segm_len),
                              Tab(LAMBDA e : sp[ix[e]], Len(ix)), TRUE))

\* the assignment that ends self.K_sa = ... of the lines 149, 154, 164, 179
\* and 182 and self.V_sa = ... of the lines 155, 160, 165, 180 and 183: the
\* attribute names the value the run computed from what it had read
RunStore ==
  \E who \in 1..2, op \in {"forward", "repeat", "reorder"} :
    /\ At(who, op, {149, 154, 155, 160, 164, 165, 179, 180, 182, 183}, 1)
    /\ \E lc \in {Loc(who)} :
         /\ Assign(lc.l, OnK(lc.line), lc.ref)
         /\ \E base \in {Rebound(who, lc.l, OnK(lc.line), lc.rpos, lc.al)} :
              IF lc.line \in {160, 165} THEN NextLayer(base, who, lc)
              ELSE Goes(base, who,
                        Onto(lc, IF lc.line = 180 THEN AfterCat
                                 ELSE IF lc.line = 183 THEN 185
                                 ELSE lc.line + 1))

\* self.K_sa is read for myMHA(q_sa, self.K_sa, self.V_sa, self.nb_heads)
\* (line 185)
RunKeys ==
  \E who \in 1..2 :
    /\ At(who, "forward", {185}, 0)
    /\ \E lc \in {Loc(who)} :
         /\ UNCHANGED <<K_sa, V_sa>>
         /\ Goes(runs, who, Holds(lc, K_sa[lc.l], SlotPos(lc.l, TRUE), TRUE))

\* self.V_sa is read, myMHA is called (line 185) and the rest of the layer
\* follows (lines 186-197), which touches no cache; after the last cached
\* layer the final layer (lines 240-245) ends the call
RunAttend ==
  \E who \in 1..2 :
    /\ At(who, "forward", {185}, 1)
    /\ \E lc \in {Loc(who)} :
         IF SelfAttOk(Len(lc.h), lc.ref, V_sa[lc.l], nb_heads)
         THEN /\ UNCHANGED <<K_sa, V_sa>>
              /\ \E hn \in {Tab(LAMBDA r :
                                  LayerRow(lc.h[r], lc.ref[r],
                                           ValueRow(lc.ref, V_sa[lc.l], r),
                                           RunInputs(who, Len(lc.h))[r], lc.l,
                                           runs.mask[who][r]), Len(lc.h))} :
                   IF lc.l < Len(K_sa)
                   THEN Goes(runs, who, [NoLocals EXCEPT !.op = "forward", !.line = 175,
                                                         !.l = lc.l + 1, !.h = hn])
                   ELSE \E ch \in RunChoice(who, runs.mode[who], runs.t[who],
                                             Tab(LAMBDA r : LogProbRow(hn[r],
                                                              RunInputs(who, Len(hn))[r],
                                                              runs.mask[who][r]), Len(hn)),
                                             runs.mask[who], runs.sums[who]) :
                          Returns(runs, who, "forward", ch)
         ELSE Raises(who)

\* torch.repeat_interleave(self.K_sa, B, dim=0) of line 164 and the same for
\* V_sa (line 165): the attribute is read and the new tensor made;
\* repeat_interleave raises on None
RunRepeatStmt ==
  \E who \in 1..2 :
    /\ At(who, "repeat", {164, 165}, 0)
    /\ \E lc \in {Loc(who)} :
       \E Tl \in {Slot(lc.l, OnK(lc.line))} :
         IF Tl = None THEN Raises(who)
         ELSE /\ UNCHANGED <<K_sa, V_sa>>
              /\ Goes(runs, who,
                      Holds(lc, LayerRepeat(Tl, BeamWidth0(RunBeam, RunSteps)), <<>>, FALSE))

\* B2 = self.K_sa.size(0) // bsz (line 148), after key_len, bsz and B (lines
\* 141-147)
RunBeams ==
  \E who \in 1..2 :
    /\ At(who, "reorder", {148}, 0)
    /\ \E lc \in {Loc(who)} :
         IF K_sa[lc.l] = None THEN Raises(who)
         ELSE /\ UNCHANGED <<K_sa, V_sa>>
              /\ Goes(runs, who,
                      [Onto(lc, 149) EXCEPT !.B2 = Beams2(K_sa[lc.l], runs.itb[who])])

\* self.K_sa.view(bsz, B2, key_len, dim_emb) of line 149 and the same for V_sa
\* (line 155): the attribute is read and viewed
RunView ==
  \E who \in 1..2 :
    /\ At(who, "reorder", {149, 155}, 0)
    /\ \E lc \in {Loc(who)}, ix \in {runs.itb[who]}, tt \in {runs.t[who] - 1} :
       \E Tl \in {Slot(lc.l, OnK(lc.line))} :
         IF ViewOk(Tl, lc.B2, tt, ix, segm_len)
         THEN /\ UNCHANGED <<K_sa, V_sa>>
              /\ Goes(runs, who,
                      Holds(lc, View4(Len(ix), Regroup(Tl, KeyLen(tt, segm_len))),
                            SlotPos(lc.l, OnK(lc.line)), TRUE))
         ELSE Raises(who)

\* K_sa_tmp = self.K_sa.clone() (line 150), V_sa_tmp = self.V_sa.clone() (line
\* 156): None has no clone
RunClone ==
  \E who \in 1..2 :
    /\ At(who, "reorder", {150, 156}, 0)
    /\ \E lc \in {Loc(who)} :
       \E Tl \in {Slot(lc.l, OnK(lc.line))} :
         IF Tl = None THEN Raises(who)
         ELSE /\ UNCHANGED <<K_sa, V_sa>>
              /\ Goes(runs, who, [Onto(lc, lc.line + 1) EXCEPT !.tmp = Tl])

\* self.K_sa = torch.zeros(bsz, B, key_len, dim_emb) (line 151) and the same
\* for V_sa (line 157); the loop of line 152 (158) begins
RunZeros ==
  \E who \in 1..2 :
    /\ At(who, "reorder", {151, 157}, 0)
    /\ \E lc \in {Loc(who)}, ix \in {runs.itb[who]}, tt \in {runs.t[who] - 1} :
         /\ Assign(lc.l, OnK(lc.line), Zeros4(Len(ix), Len(ix[1]), KeyLen(tt, segm_len)))
         /\ Goes(Rebound(who, lc.l, OnK(lc.line), <<>>, FALSE), who,
                 [Onto(lc, lc.line + 2) EXCEPT !.b = 1])

\* K_sa_tmp[b, idx_top_beams[b], :, :] is read and then the attribute
\* self.K_sa (line 153), and the same for V_sa (line 159), for one b of the
\* loop
RunGather ==
  \E who \in 1..2 :
    /\ At(who, "reorder", {153, 159}, 0)
    /\ \E lc \in {Loc(who)}, ix \in {runs.itb[who]} :
         IF GatherFrom(lc.tmp, lc.b, ix[lc.b])
         THEN /\ UNCHANGED <<K_sa, V_sa>>
              /\ Goes(runs, who,
                      Holds(lc, Slot(lc.l, OnK(lc.line)), SlotPos(lc.l, OnK(lc.line)), TRUE))
         ELSE Raises(who)

\* self.K_sa[b, zero_to_B, :, :] = ... (line 153) and the same for V_sa (line
\* 159): the tensor the run has read from the attribute is written in place
RunWrite ==
  \E who \in 1..2 :
    /\ At(who, "reorder", {153, 159}, 1)
    /\ \E lc \in {Loc(who)}, ix \in {runs.itb[who]} :
         IF GatherOk(lc.ref, lc.tmp, lc.b, ix[lc.b])
         THEN \E nw \in {Gather(lc.ref, lc.tmp, lc.b, ix[lc.b])},
                 o \in {OtherRun(who)}, k \in {OnK(lc.line)} :
              \E wc \in {Cells(nw)} :
                /\ Assign(lc.l, k,
                          IF lc.al THEN SyncTo(Slot(lc.l, k), SlotPos(lc.l, k), lc.rpos, wc)
                          ELSE Slot(lc.l, k))
                /\ Goes(IF lc.al /\ Shares(runs, o, lc.l, k)
                        THEN [runs EXCEPT !.loc[o].ref =
                                            SyncTo(@, runs.loc[o].rpos, lc.rpos, wc)]
                        ELSE runs,
                        who,
                        IF lc.b < Len(ix) THEN [Onto(lc, lc.line) EXCEPT !.b = @ + 1]
                        ELSE [Onto(lc, lc.line + 1) EXCEPT !.b = 0, !.tmp = None])
         ELSE Raises(who)

\* self.K_sa.view(bsz*B, key_len, dim_emb) of line 154 and the same for V_sa
\* (line 160): the attribute is read and viewed
RunFlatten ==
  \E who \in 1..2 :
    /\ At(who, "reorder", {154, 160}, 0)
    /\ \E lc \in {Loc(who)}, ix \in {runs.itb[who]}, tt \in {runs.t[who] - 1} :
       \E Tl \in {Slot(lc.l, OnK(lc.line))} :
         IF ViewOk(Tl, Len(ix[1]), tt, ix, segm_len)
         THEN /\ UNCHANGED <<K_sa, V_sa>>
              /\ Goes(runs, who,
                      Holds(lc, Regroup(Tl, KeyLen(tt, segm_len)),
                            SlotPos(lc.l, OnK(lc.line)), TRUE))
         ELSE Raises(who)

NextTwoRuns ==
  \/ RunResetStmt
  \/ RunTest
  \/ RunAssign
  \/ RunCat
  \/ RunWindow
  \/ RunStore
  \/ RunKeys
  \/ RunAttend
  \/ RunRepeatStmt
  \/ RunBeams
  \/ RunView
  \/ RunClone
  \/ RunZeros
  \/ RunGather
  \/ RunWrite
  \/ RunFlatten

\* a decoder whose cache keeps every entry or the last one
InitTwoRuns == Init /\ nb_layers_decoder = RunLayers + 1 /\ segm_len \in {0, 1}

SpecTwoRuns == InitTwoRuns /\ [][NextTwoRuns]_vars

\* ============================================================ properties
\* s lists every node of 0..n-1 in n positions (so none twice, and not n)
IsPermutation(s, n) ==
  /\ Len(s) = n
  /\ \A j \in 0..(n - 1) : \E p \in 1..n : s[p] = j

\* the number of cached entries the specification gives after tt steps
WindowLen(tt) == IF segm_len # 0 /\ segm_len < tt THEN segm_len ELSE tt

\* C1: greedy decoding returns, for every batch row, a tour of nb_nodes
\* positions that is a permutation of 0..nb_nodes-1 (no node twice, every node
\* present, the start index nb_nodes absent)
C1_GreedyTourIsPermutation ==
  (pc \in {"ret", "done"} /\ greedy) =>
     /\ Len(tours_greedy) = bsz
     /\ \A b \in 1..bsz : IsPermutation(tours_greedy[b], nb_nodes)

C1_Witness ==
  /\ pc = "ret" /\ greedy /\ nb_nodes = MaxNodes /\ bsz >= 2
  /\ IsPermutation(tours_greedy[1], nb_nodes)
  /\ tours_greedy[1] # tours_greedy[2]

\* C2: every tour of the beam-search output is a permutation of
\* 0..nb_nodes-1, for every beam width and every number of nodes
C2_BeamToursArePermutations ==
  (pc \in {"ret", "done"} /\ beamsearch) =>
     /\ Len(tours_beamsearch) = bsz
     /\ \A b \in 1..bsz : \A i \in 1..Len(tours_beamsearch[b]) :
           IsPermutation(tours_beamsearch[b][i], nb_nodes)

\* C3: during a decoding run, after t steps every cached layer holds, in every
\* row, min(t, segm_len) keys and as many values when a window is configured,
\* and t of each otherwise (the steps of beam search include the repeat and
\* the reorder of the caches)
C3_CacheLength ==
  pc \in {"greedy", "beam"} =>
     \A l \in 1..Len(K_sa) :
        /\ CacheLen(K_sa[l]) = WindowLen(t)
        /\ CacheLen(V_sa[l]) = WindowLen(t)
        /\ Len(K_sa[l]) = Len(V_sa[l])
        /\ \A r \in 1..Len(K_sa[l]) :
              Len(K_sa[l][r]) = WindowLen(t) /\ Len(V_sa[l][r]) = WindowLen(t)

C3_Witness ==
  /\ pc = "beam" /\ t = 2 /\ segm_len = 1 /\ nb_layers_decoder = 3
  /\ B_t0 < B
  /\ CacheLen(K_sa[2]) = 1
  /\ \E b \in 1..bsz : \E i \in 1..B : idx_top_beams[b][i] # i - 1

\* C4: in beam search every batch row has min(B, nb_nodes) beams after step 0
\* and B beams after every later step when B <= nb_nodes*(nb_nodes-1); no such
\* run raises, in particular none with B > nb_nodes
C4_BeamWidthSchedule ==
  /\ (pc = "beam" /\ t = 1) =>
        \A b \in 1..bsz :
           /\ Len(tours[b]) = (IF B <= nb_nodes THEN B ELSE nb_nodes)
           /\ Len(sum_scores[b]) = Len(tours[b])
           /\ Len(mask_visited_nodes[b]) = Len(tours[b])
           /\ Len(h_t[b]) = Len(tours[b])
  /\ (pc = "beam" /\ t >= 2 /\ B <= nb_nodes * (nb_nodes - 1)) =>
        \A b \in 1..bsz :
           /\ Len(tours[b]) = B
           /\ Len(sum_scores[b]) = B
           /\ Len(mask_visited_nodes[b]) = B
           /\ Len(h_t[b]) = B
  /\ pc = "error" => (nb_nodes >= 2 /\ B > nb_nodes * (nb_nodes - 1))

C4_Witness ==
  /\ pc = "beam" /\ t >= 2 /\ nb_nodes < B /\ B <= nb_nodes * (nb_nodes - 1)
  /\ B_t0 = nb_nodes
  /\ \A b \in 1..bsz : Len(tours[b]) = B

\* C5: the beam-search output holds one result per batch row: one tour, the
\* tour of beam 0, and the score of beam 0
C5_SingleBestTourPerRow ==
  (pc = "ret" /\ beamsearch) =>
     \A b \in 1..bsz :
        /\ Len(tours_beamsearch[b]) = 1
        /\ tours_beamsearch[b][1] = tours[b][1]
        /\ scores_beamsearch[b] = sum_scores[b]

RECURSIVE GreedyLoop(_, _, _)
\* k iterations of the greedy loop (lines 363-381) from s
GreedyLoop(s, xx, k) ==
  IF k = 0 \/ ~s.ok THEN s
  ELSE Let2(GreedyIter(s, xx), k - 1, LAMBDA r, k2 : GreedyLoop(r, xx, k2))

RECURSIVE BeamLoop(_, _, _, _, _)
\* the records k iterations of the beam-search loop (lines 396-507) can end
\* in, from one of the records S
BeamLoop(S, xx, n, BB, k) ==
  IF k = 0 THEN S
  ELSE Let2(UNION {IF s.ok THEN BeamIter(s, xx, n, BB) ELSE {s} : s \in S}, k - 1,
            LAMBDA R, k2 : BeamLoop(R, xx, n, BB, k2))

\* greedy decoding of xx on a freshly constructed model
FreshGreedy(xx, n) ==
  Let1(GreedyEnter([Blank(FreshCache, FreshCache) EXCEPT !.Katt = xx], xx, n),
       LAMBDA s0 : GreedyLoop(s0, xx, n))

\* the outcomes of beam search of xx on a freshly constructed model, with
\* greedy = False
FreshBeam(xx, n, BB) ==
  Let1(BeamEnter([Blank(FreshCache, FreshCache) EXCEPT !.Katt = xx]),
       LAMBDA s0 : BeamLoop({s0}, xx, n, BB, n))

\* C6: every decoding run starts with no cache in any layer, and beam search
\* with a mask holding only the start token; whatever the earlier modes and
\* calls left on the decoder, the tours and scores forward returns are those
\* of the same mode on a freshly constructed model (for beam search: those a
\* call with greedy = False can return, whatever order torch.topk gives equal
\* scores)
C6_RunsStartFromEmptyCache ==
  /\ (pc \in {"greedy", "beam"} /\ t = 0) => (K_sa = FreshCache /\ V_sa = FreshCache)
  /\ (pc = "greedy" /\ t = 0) =>
        \A b \in 1..bsz : mask_visited_nodes[b] = StartMask(nb_nodes)
  /\ (pc = "beam" /\ t = 1) =>
        \A b \in 1..bsz : \A i \in 1..Len(mask_visited_nodes[b]) :
           \A p \in 1..(nb_nodes + 1) :
              mask_visited_nodes[b][i][p] <=> (p = nb_nodes + 1 \/ p = tours[b][i][1] + 1)
  /\ (pc = "ret" /\ greedy) =>
        \A ref \in {FreshGreedy(x, nb_nodes)} :
           /\ ref.ok
           /\ tours_greedy = ref.tours
           /\ scores_greedy = Tab(LAMBDA b : SumScores(ref.sums[b]), bsz)
  /\ (pc = "ret" /\ beamsearch) =>
        \A fresh \in {FreshBeam(x, nb_nodes, B)} :
           /\ \A ref \in fresh : ref.ok
           /\ \E ref \in fresh :
                 /\ tours_beamsearch = ref.tours
                 /\ scores_beamsearch = Tab(LAMBDA b : ref.sums[b][1], bsz)

C6_Witness ==
  /\ pc = "ret" /\ warm_start /\ greedy /\ beamsearch
  /\ nb_layers_decoder = 3 /\ segm_len = 2 /\ nb_nodes = ReuseNodes /\ B = ReuseBeam
  /\ bsz = MaxBsz
  /\ \E ref \in FreshBeam(x, nb_nodes, B) : tours_beamsearch = ref.tours

\* C7: when forward returns after greedy decoding or beam search, the cache of
\* every decoder layer is empty
C7_CacheEmptyAtReturn ==
  (pc = "done" /\ (greedy \/ beamsearch)) => (K_sa = FreshCache /\ V_sa = FreshCache)

\* C7 (as the code has it): forward does not clear the caches before it
\* returns; after greedy decoding or beam search every cached layer still
\* holds the keys and values of the last mode that ran, min(nb_nodes, segm_len)
\* of each per row (nb_nodes without a window), in one row per batch row after
\* greedy decoding and one row per beam after beam search
C7_CacheKeptAtReturn ==
  (pc \in {"ret", "done"} /\ (greedy \/ beamsearch)) =>
     \A l \in 1..(nb_layers_decoder - 1) :
        /\ K_sa[l] # None /\ V_sa[l] # None
        /\ CacheLen(K_sa[l]) = WindowLen(nb_nodes)
        /\ CacheLen(V_sa[l]) = WindowLen(nb_nodes)
        /\ Len(K_sa[l]) = (IF beamsearch /\ nb_nodes > 1 THEN bsz * B ELSE bsz)
        /\ Len(V_sa[l]) = Len(K_sa[l])

C7_Witness ==
  /\ pc = "done" /\ beamsearch /\ nb_layers_decoder = 3 /\ segm_len = 0
  /\ nb_nodes = 3 /\ B = 2 /\ bsz = 2
  /\ Len(K_sa[2]) = 4 /\ CacheLen(K_sa[2]) = 3

\* C8: the visited mask only grows.  In greedy decoding every entry of a row
\* that is true before a step is true after it; in beam search every entry
\* that is true in the mask of the parent beam (idx_top_beams) before a step
\* is true in the mask of the retained beam after it, the parent of the beams
\* of step 0 being the start mask
C8_MaskOnlyGrows ==
  [][/\ (pc = "greedy" /\ pc' = "greedy") =>
          \A b \in 1..bsz : \A p \in 1..(nb_nodes + 1) :
             mask_visited_nodes[b][p] => mask_visited_nodes'[b][p]
     /\ (pc = "beam" /\ pc' = "beam" /\ t = 0 /\ t' = 1) =>
          \A b \in 1..bsz : \A i \in 1..Len(mask_visited_nodes'[b]) :
             mask_visited_nodes'[b][i][nb_nodes + 1]
     /\ (pc = "beam" /\ pc' = "beam" /\ t >= 1 /\ t' = t + 1) =>
          \A b \in 1..bsz : \A i \in 1..Len(mask_visited_nodes'[b]) :
             \A p \in 1..(nb_nodes + 1) :
                mask_visited_nodes[b][idx_top_beams'[b][i] + 1][p]
                   => mask_visited_nodes'[b][i][p]
    ]_vars

C8_Witness ==
  /\ pc = "beam" /\ t = 2 /\ nb_nodes = 3
  /\ \E b \in 1..bsz : \E i \in 1..B :
        /\ idx_top_beams[b][i] # i - 1
        /\ Cardinality({p \in 1..(nb_nodes + 1) : mask_visited_nodes[b][i][p]}) = 3

\* C9: in beam search the cumulative score of every retained beam after a
\* step t >= 1 is at most the cumulative score its parent beam had before it
C9_ScoreNonIncreasing ==
  [][(pc = "beam" /\ pc' = "beam" /\ t >= 1 /\ t' = t + 1) =>
        \A b \in 1..bsz : \A i \in 1..Len(sum_scores'[b]) :
           sum_scores'[b][i] <= sum_scores[b][idx_top_beams'[b][i] + 1]
    ]_vars

C9_Witness ==
  /\ pc = "beam" /\ t >= 2
  /\ \E b \in 1..bsz : \E i \in 1..B :
        /\ idx_top_beams[b][i] # i - 1
        /\ sum_scores[b][i] # NegInf
        /\ sum_scores[b][i] < 0 - 1

\* C10: reset is idempotent.  A reset of the decoder leaves every layer with
\* no key cache and no value cache, a reset of one layer leaves that layer so,
\* and the same reset called again, directly after, changes nothing
C10_ResetIdempotent ==
  [][/\ pc' \in {"reset", "reset_again"} =>
          \A l \in 1..Len(K_sa') : K_sa'[l] = None /\ V_sa'[l] = None
     /\ pc' \in {"layer1_reset", "layer1_reset_again"} =>
          (K_sa'[1] = None /\ V_sa'[1] = None)
     /\ pc' \in {"layer2_reset", "layer2_reset_again"} =>
          (K_sa'[2] = None /\ V_sa'[2] = None)
     /\ pc' \in {"reset_again", "layer1_reset_again", "layer2_reset_again"} =>
          (K_sa' = K_sa /\ V_sa' = V_sa)
    ]_vars

C10_Witness ==
  /\ pc = "layer1_reset_again"
  /\ K_sa[1] = None /\ V_sa[1] = None
  /\ CacheLen(K_sa[2]) >= 2

\* a (2, n) tensor of zeros and a vector of two zeros
IsPlaceholder(tr, sc, n) ==
  /\ Len(tr) = 2 /\ Len(sc) = 2
  /\ \A r \in 1..2 : sc[r] = 0 /\ Len(tr[r]) = n /\ \A p \in 1..n : tr[r][p] = 0

\* C11: a mode whose flag is false is never entered and its two outputs stay
\* the zero placeholders; a call with both flags false changes no cache (no
\* reset, no step); the outputs of an enabled mode are results, one per batch
\* row
C11_DisabledModeIsInert ==
  [][pc' \in {"greedy", "beam", "ret", "done"} =>
       /\ ~greedy' =>
             /\ pc' # "greedy"
             /\ IsPlaceholder(tours_greedy', scores_greedy', nb_nodes')
       /\ ~beamsearch' =>
             /\ pc' # "beam"
             /\ IsPlaceholder(tours_beamsearch', scores_beamsearch', nb_nodes')
       /\ (~greedy' /\ ~beamsearch') => (K_sa' = K_sa /\ V_sa' = V_sa /\ t' = 0)
       /\ (greedy' /\ pc' \in {"ret", "done"}) =>
             /\ Len(tours_greedy') = bsz' /\ Len(scores_greedy') = bsz'
             /\ \A b \in 1..bsz' : IsPermutation(tours_greedy'[b], nb_nodes')
       /\ (beamsearch' /\ pc' \in {"ret", "done"}) =>
             /\ Len(tours_beamsearch') = bsz' /\ Len(scores_beamsearch') = bsz'
             /\ \A b \in 1..bsz' : \A i \in 1..Len(tours_beamsearch'[b]) :
                   Len(tours_beamsearch'[b][i]) = nb_nodes'
    ]_vars

C11_Witness ==
  /\ pc = "done" /\ ~greedy /\ ~beamsearch /\ warm_start
  /\ nb_nodes = ReuseNodes /\ bsz = 1
  /\ Len(K_sa[1]) = 2 * ReuseBeam /\ CacheLen(K_sa[2]) >= 2
  /\ IsPlaceholder(tours_greedy, scores_greedy, nb_nodes)
  /\ IsPlaceholder(tours_beamsearch, scores_beamsearch, nb_nodes)

RECURSIVE PathLength(_, _, _)
\* the sum of the distances between the first k consecutive pairs of positions
PathLength(c, tr, k) ==
  IF k = 0 THEN 0 ELSE PathLength(c, tr, k - 1) + Dist(c[tr[k] + 1], c[tr[k + 1] + 1])

\* C12: compute_tour_length returns, for a tour of any length N, the sum of
\* the N-1 distances between consecutive positions plus the distance from the
\* last position back to the first; every permutation of three colinear
\* points at 0, 1, 2 gives 4
C12_TourLengthIsCycleLength ==
  pc \in {"length_returned", "length_raised"} =>
     /\ pc = "length_returned"
     /\ L_length = PathLength(cities, tour, Len(tour) - 1)
             + Dist(cities[tour[Len(tour)] + 1], cities[tour[1] + 1])
     /\ (cities = <<<<0, 0>>, <<1, 0>>, <<2, 0>>>> /\ IsPermutation(tour, 3)) => L_length = 4

\* C13: a constructor call with an embedding width that the number of heads
\* does not divide fails at the assert with no model object produced, and a
\* call with a width that it divides passes that check: it does not stop at
\* the assert, and it produces the model unless the table of positional
\* encodings, generated after the check, cannot be filled (an odd width of 3
\* or more), which leaves no model object either
C13_ConstructionChecksDivisibility ==
  pc # "new" =>
    /\ dim_emb % nb_heads # 0 =>
         pc = "assert_error" /\ nb_layers_decoder = 0 /\ K_sa = <<>> /\ V_sa = <<>>
    /\ dim_emb % nb_heads = 0 =>
         /\ pc \in {"idle", "pe_error"}
         /\ pc = "pe_error" <=> (dim_emb % 2 = 1 /\ dim_emb >= 3)
         /\ pc = "pe_error" => nb_layers_decoder = 0 /\ K_sa = <<>> /\ V_sa = <<>>
         /\ pc = "idle" =>
              nb_layers_decoder >= 1 /\ K_sa = FreshCache /\ V_sa = FreshCache

C13_Witness == pc = "assert_error" /\ dim_emb = 5 /\ nb_heads = 2

\* C14: a reorder with idx of nb rows and Bn ids each, on a cache of nb * B2
\* rows, gives nb * Bn rows; the new key row and the new value row of beam i
\* of batch row b are the old rows of beam idx[b][i] of the same batch row,
\* with their length unchanged; Bn may differ from B2 and ids may repeat.  The
\* call succeeds when the cache holds key_len entries and every id is below B2
C14_ReorderGathersSourceBeam ==
  [][pc' \in {"reordered", "reorder_raised"} =>
       \A nb \in {Len(idx_top_beams')} : \A Bn \in {Len(idx_top_beams'[1])} :
         /\ (/\ \A l \in 1..Len(K_sa) :
                  /\ K_sa[l] # None /\ V_sa[l] # None
                  /\ Len(K_sa[l]) % nb = 0 /\ Len(V_sa[l]) % nb = 0
                  /\ CacheLen(K_sa[l]) = KeyLen(t - 1, segm_len)
                  /\ CacheLen(V_sa[l]) = KeyLen(t - 1, segm_len)
                  /\ \A b \in 1..nb : \A k \in 1..Bn :
                        idx_top_beams'[b][k] < Len(K_sa[l]) \div nb
             ) => pc' = "reordered"
         /\ pc' = "reordered" =>
              \A l \in 1..Len(K_sa) :
                Len(K_sa[l]) % nb = 0 =>
                  \A B2 \in {Len(K_sa[l]) \div nb} :
                    /\ Len(K_sa'[l]) = nb * Bn /\ Len(V_sa'[l]) = nb * Bn
                    /\ \A b \in 1..nb : \A k \in 1..Bn :
                         /\ K_sa'[l][(b - 1) * Bn + k]
                              = K_sa[l][(b - 1) * B2 + idx_top_beams'[b][k] + 1]
                         /\ V_sa'[l][(b - 1) * Bn + k]
                              = V_sa[l][(b - 1) * B2 + idx_top_beams'[b][k] + 1]
    ]_vars

\* two batch rows of two beams reordered to <<1, 1>> and <<1, 0>>: a repeated
\* source beam, and rows that differ between the batch rows
C14_Witness ==
  /\ nb_layers_decoder = 3 /\ pc = "reordered"
  /\ idx_top_beams = <<<<1, 1>>, <<1, 0>>>>
  /\ Len(K_sa[1]) = 4 /\ CacheLen(K_sa[1]) = 2
  /\ K_sa[1][1] = K_sa[1][2] /\ K_sa[1][3] # K_sa[1][4] /\ K_sa[1][1] # K_sa[1][3]

RECURSIVE Replay(_, _, _, _)
\* the decoder run alone on one partial tour tr[1..k] of the input row xb, on a
\* freshly constructed decoder: k calls, with the queries of the start token
\* and of tr[1..k-1]; gives the caches after the k calls, the mask of tr[1..k],
\* and the log-probability each call gave to the node the tour takes next
Replay(xb, n, tr, k) ==
  IF k = 0
  THEN [K |-> FreshCache, V |-> FreshCache, mask |-> StartMask(n), logp |-> <<>>]
  ELSE Let2(Replay(xb, n, tr, k - 1), IF k = 1 THEN n ELSE tr[k - 1], LAMBDA r, last :
         Let1(Decoder(<<Emb(xb, last, k - 1)>>, <<xb>>, <<r.mask>>, r.K, r.V), LAMBDA d :
           [K |-> d.K, V |-> d.V, mask |-> SetTrue(r.mask, tr[k]),
            logp |-> Append(r.logp, d.logp[1][tr[k] + 1])]))

\* C15: in beam search, when the decoder is about to run step t >= 1, the
\* cache row of beam i of every layer holds what a decoder run alone on that
\* beam's partial tour would hold: the entries of the start token and of the
\* tour's first t-1 nodes, in order, cut to the window
C15_CacheFollowsItsBeam ==
  (pc = "beam" /\ t >= 1) =>
    \A b \in 1..bsz : \A W \in {Len(tours[b])} : \A i \in 1..W :
      \A r \in {Replay(x[b], nb_nodes, tours[b][i], t)} :
        \A l \in 1..Len(K_sa) :
          /\ Len(K_sa[l]) = bsz * W /\ Len(V_sa[l]) = bsz * W
          /\ K_sa[l][(b - 1) * W + i] = r.K[l][1]
          /\ V_sa[l][(b - 1) * W + i] = r.V[l][1]
          /\ Len(K_sa[l][(b - 1) * W + i]) = WindowLen(t)

\* two batch rows, three beams that do not descend from beams 0, 1, 2 in that
\* order, before step 2 of a three-layer decoder
C15_Witness ==
  /\ pc = "beam" /\ t = 2 /\ nb_nodes = 3 /\ bsz = 2 /\ B = 3
  /\ nb_layers_decoder = 3
  /\ idx_top_beams[1] # <<0, 1, 2>>
  /\ K_sa[1][1] # K_sa[1][2] /\ K_sa[2][1] # K_sa[2][4]

\* the operations of a greedy run of n steps
GreedyOps(n) == <<<<"reset", 0>>>> \o Tab(LAMBDA k : <<"decoder", k - 1>>, n)

\* decoder and reorder of the steps 1..k-1 of beam search
ExpandOps(k) ==
  Tab(LAMBDA e : IF e % 2 = 1 THEN <<"decoder", (e + 1) \div 2>>
                 ELSE <<"reorder", e \div 2>>, (2 * (k - 1)))

\* C16: the cache operations of a beam-search run come in a fixed order: one
\* reset before step 0; after the decoder call of step 0 one repeat of
\* min(B, nb_nodes); after the decoder call of every step t >= 1 one reorder;
\* nothing else (no repeat after step 0, no reorder at step 0)
C16_BeamOperationOrder ==
  (pc = "beam" \/ (pc = "ret" /\ beamsearch)) =>
    ops = (IF greedy THEN GreedyOps(nb_nodes) ELSE <<>>)
            \o <<<<"reset", 0>>>>
            \o (IF t = 0 THEN <<>>
                ELSE <<<<"decoder", 0>>, <<"repeat", Min(B, nb_nodes)>>>> \o ExpandOps(t))

\* a run with a width above the node count, after step 2
C16_Witness ==
  /\ pc = "beam" /\ t = 3 /\ nb_nodes = 3 /\ B = 4 /\ ~greedy
  /\ ops = <<<<"reset", 0>>, <<"decoder", 0>>, <<"repeat", 3>>, <<"decoder", 1>>,
             <<"reorder", 1>>, <<"decoder", 2>>, <<"reorder", 2>>>>

\* C17: when the decoder is called in beam search, the query, the visited
\* mask, the cross-attention keys and the cache of every cached layer have the
\* same number of rows: bsz at step 0 (where no layer has a cache yet),
\* bsz * min(B, nb_nodes) at step 1 and bsz * B from step 2 on; and every
\* cached layer holds the same number of entries
C17_WidthsAgree ==
  (pc = "beam" /\ t < nb_nodes) =>
    IF t = 0
    THEN /\ Len(K_att_decoder) = bsz
         /\ \A l \in 1..Len(K_sa) : K_sa[l] = None /\ V_sa[l] = None
    ELSE \A W \in {IF t = 1 THEN Min(B, nb_nodes) ELSE B} :
           /\ Len(h_t) = bsz /\ Len(mask_visited_nodes) = bsz
           /\ \A b \in 1..bsz : Len(h_t[b]) = W /\ Len(mask_visited_nodes[b]) = W
           /\ Len(Flatten2(h_t)) = bsz * W
           /\ Len(Flatten2(mask_visited_nodes)) = bsz * W
           /\ Len(K_att_decoder) = bsz * W
           /\ \A l \in 1..Len(K_sa) :
                /\ Len(K_sa[l]) = bsz * W /\ Len(V_sa[l]) = bsz * W
                /\ \A r \in 1..(bsz * W) :
                     /\ Len(K_sa[l][r]) = CacheLen(K_sa[1])
                     /\ Len(V_sa[l][r]) = CacheLen(K_sa[1])

\* before step 2, with a width B above min(B, nb_nodes)
C17_Witness ==
  /\ pc = "beam" /\ t = 2 /\ nb_nodes = 3 /\ bsz = 1 /\ B = 5
  /\ nb_layers_decoder = 3
  /\ Len(K_att_decoder) = 5 /\ Len(K_sa[2]) = 5 /\ B_t0 = 3

\* after a beam-search step, the mask of every beam marks the start token and
\* exactly the nodes of 0..nb_nodes-1 its partial tour holds
MaskMatchesTour ==
  \A b \in 1..bsz : \A i \in 1..Len(tours'[b]) :
    /\ mask_visited_nodes'[b][i][nb_nodes + 1]
    /\ \A j \in 0..(nb_nodes - 1) :
         mask_visited_nodes'[b][i][j + 1] <=> (\E p \in 1..t' : tours'[b][i][p] = j)

\* the node a beam-search step appends to a retained beam is a node of
\* 0..nb_nodes-1 that its parent beam had not visited
AppendsUnvisited ==
  \A b \in 1..bsz : \A i \in 1..Len(tours'[b]) :
    /\ tours'[b][i][t'] \in 0..(nb_nodes - 1)
    /\ IF t = 0 THEN TRUE
       ELSE ~mask_visited_nodes[b][idx_top_beams'[b][i] + 1][tours'[b][i][t'] + 1]

\* C18: after every beam-search step, for every beam of every batch row, the
\* mask is true at a node exactly when the node is in the beam's partial tour
\* (and true at the start token), and the step appended to every retained beam
\* one node its parent beam had not visited
C18_MaskIsTourAndNodeIsNew ==
  [][(pc = "beam" /\ pc' = "beam" /\ t' = t + 1) => (MaskMatchesTour /\ AppendsUnvisited)]_vars

\* C19: a score stays with its tour.  After t >= 1 steps of beam search the
\* cumulative score of beam i is the sum, over the t nodes of its partial
\* tour, of the log-probability the decoder gives to that node after the
\* nodes before it; the score beam search returns is that sum for the tour of
\* beam 0; the greedy score is that sum for the nodes greedy decoding chose
C19_ScoreBelongsToTour ==
  /\ (pc = "beam" /\ t >= 1) =>
       \A b \in 1..bsz : \A i \in 1..Len(tours[b]) :
         \A r \in {Replay(x[b], nb_nodes, tours[b][i], t)} :
           sum_scores[b][i] = SumScores(r.logp)
  /\ (pc = "ret" /\ beamsearch) =>
       \A b \in 1..bsz :
         \A r \in {Replay(x[b], nb_nodes, tours_beamsearch[b][1], nb_nodes)} :
           scores_beamsearch[b] = SumScores(r.logp)
  /\ (pc = "greedy" /\ t >= 1) =>
       \A b \in 1..bsz :
         \A r \in {Replay(x[b], nb_nodes, tours[b], t)} : sum_scores[b] = r.logp
  /\ (pc = "ret" /\ greedy) =>
       \A b \in 1..bsz :
         \A r \in {Replay(x[b], nb_nodes, tours_greedy[b], nb_nodes)} :
           scores_greedy[b] = SumScores(r.logp)

\* beams that changed places at step 1 and carry different finite scores
C19_Witness ==
  /\ pc = "beam" /\ t = 2 /\ nb_nodes = 3 /\ B = 3 /\ nb_layers_decoder = 3
  /\ idx_top_beams[1] # <<0, 1, 2>>
  /\ sum_scores[1][1] # sum_scores[1][2]
  /\ sum_scores[1][3] # NegInf /\ sum_scores[1][3] < sum_scores[1][2]

\* C20: at every beam-search step t >= 1 the B candidates kept for a batch row
\* are the B best of all (current beam, next node) combinations of that row by
\* cumulative score: B different combinations, none of the others with a
\* score above that of a kept one, each kept beam carrying the score, the
\* parent and the node of its combination
C20_GlobalTopB ==
  [][(pc = "beam" /\ pc' = "beam" /\ t >= 1 /\ t' = t + 1) =>
       \A d \in {Decoder(Flatten2(h_t), K_att_decoder, Flatten2(mask_visited_nodes),
                         K_sa, V_sa)} :
         \A b \in 1..bsz : \A W \in {Len(h_t[b])} :
           \A flat \in {FlatScores(d.logp, sum_scores, b, W, nb_nodes)} :
             /\ Len(flat) = W * (nb_nodes + 1)
             /\ Len(top_idx'[b]) = B
             /\ \A i \in 1..B :
                  /\ top_idx'[b][i] \in 0..(Len(flat) - 1)
                  /\ \A k \in 1..B : top_idx'[b][i] = top_idx'[b][k] => i = k
                  /\ sum_scores'[b][i] = flat[top_idx'[b][i] + 1]
                  /\ top_idx'[b][i]
                       = idx_top_beams'[b][i] * (nb_nodes + 1) + idx_in_beams'[b][i]
                  /\ idx_in_beams'[b][i] \in 0..nb_nodes
                  /\ tours'[b][i][t'] = idx_in_beams'[b][i]
                  /\ \A p \in 1..t : tours'[b][i][p] = tours[b][idx_top_beams'[b][i] + 1][p]
                  /\ \A e \in 0..(Len(flat) - 1) :
                       (\A k \in 1..B : top_idx'[b][k] # e)
                          => flat[e + 1] <= flat[top_idx'[b][i] + 1]
    ]_vars

\* a step that dropped a candidate of finite score and kept two children of
\* one beam
C20_Witness ==
  /\ pc = "beam" /\ t = 2 /\ nb_nodes = 3 /\ B = 4 /\ bsz = 1
  /\ \E i \in 1..B : \E k \in 1..B : i # k /\ idx_top_beams[1][i] = idx_top_beams[1][k]
  /\ \A i \in 1..B : sum_scores[1][i] # NegInf
  /\ sum_scores[1][1] > sum_scores[1][4]

\* C21: a flattened index k of 0..W*(nb_nodes+1)-1 splits exactly: the beam
\* k div (nb_nodes+1) is in 0..W-1, the node k - beam*(nb_nodes+1) is in
\* 0..nb_nodes, beam*(nb_nodes+1) + node is k again, and no other flattened
\* index gives the same beam and node
C21_UnravelIsExact ==
  pc = "unravelled" =>
    \A k \in {top_idx[1][1]} : \A bm \in {idx_top_beams[1][1]} : \A nd \in {idx_in_beams[1][1]} :
      /\ bm \in 0..(B_t0 - 1)
      /\ nd \in 0..nb_nodes
      /\ bm * (nb_nodes + 1) + nd = k
      /\ \A k2 \in 0..(B_t0 * (nb_nodes + 1) - 1) :
           (BeamOf(k2, nb_nodes) = bm /\ NodeOf(k2, nb_nodes) = nd) => k2 = k

\* the last candidate of the last of five beams over three nodes
C21_Witness ==
  /\ pc = "unravelled" /\ nb_nodes = 3 /\ B_t0 = 5
  /\ top_idx = <<<<19>>>> /\ idx_top_beams = <<<<4>>>> /\ idx_in_beams = <<<<3>>>>

\* C22: the query the decoder gets at step t is, for every candidate, the
\* encoder context of the node the candidate took at step t-1 plus the
\* positional encoding of t, and the context of the start token plus that of 0
\* at step 0; in beam search the query of beam i comes from the last node of
\* the tour of beam i after the pruning.  (Step 0 of beam search builds its
\* query inside the step: the scores it leaves are those of that query.)
C22_QueryFollowsLastNode ==
  [][/\ (pc' = "greedy" /\ t' = 0) =>
          \A b \in 1..bsz' : h_t'[b] = Emb(x'[b], nb_nodes', 0)
     /\ (pc' = "greedy" /\ t' >= 1) =>
          \A b \in 1..bsz' : h_t'[b] = Emb(x'[b], tours'[b][t'], t')
     /\ (pc = "beam" /\ t = 0 /\ pc' = "beam" /\ t' = 1) =>
          \A b \in 1..bsz :
            \A d \in {Decoder(<<Emb(x[b], nb_nodes, 0)>>, <<x[b]>>, <<StartMask(nb_nodes)>>,
                              FreshCache, FreshCache)} :
              \A i \in 1..Len(tours'[b]) :
                 sum_scores'[b][i] = d.logp[1][tours'[b][i][1] + 1]
     /\ (pc' = "beam" /\ t' >= 1) =>
          \A b \in 1..bsz' : \A i \in 1..Len(tours'[b]) :
             /\ Len(h_t'[b]) = Len(tours'[b])
             /\ h_t'[b][i] = Emb(x'[b], tours'[b][i][t'], t')
    ]_vars

\* beams that changed places at step 1: the queries differ and follow the tours
C22_Witness ==
  /\ pc = "beam" /\ t = 2 /\ nb_nodes = 3 /\ B = 3 /\ bsz = 2
  /\ idx_top_beams[1] # <<0, 1, 2>>
  /\ h_t[1][1] = Emb(x[1], tours[1][1][2], 2)
  /\ h_t[1][1] # h_t[1][2] /\ h_t[1][1] # h_t[2][1]

\* the number of entries a layer holds after one more step on old entries
Stepped(old) == IF segm_len # 0 THEN Min(old + 1, segm_len) ELSE old + 1

\* layer l holds keys and values as forward calls leave them: tensors of three
\* dimensions with the same number of entries
Regular(l) ==
  K_sa[l] # None =>
    /\ V_sa[l] # None /\ ~Is4D(K_sa[l]) /\ ~Is4D(V_sa[l])
    /\ Len(K_sa[l]) = Len(V_sa[l]) /\ CacheLen(K_sa[l]) = CacheLen(V_sa[l])

\* the forward call was given the encoder's output and a mask of as many rows
\* as queries
ArgumentsAgree == pc' \in {"stepped", "raised"}

\* C23 as stated: a forward call on a warm cache left by earlier calls raises
\* no error and appends to the old cache, which then holds
\* min(old length + 1, window) entries; only a reset empties a warm layer
C23_WarmStepNeverRaises ==
  [][/\ (/\ t' = t + 1 /\ ArgumentsAgree
         /\ \A l \in 1..Len(K_sa) : Regular(l)
         /\ \E l \in 1..Len(K_sa) : K_sa[l] # None) =>
          /\ pc' = "stepped"
          /\ \A l \in 1..Len(K_sa) :
               K_sa[l] # None => CacheLen(K_sa'[l]) = Stepped(CacheLen(K_sa[l]))
     /\ \A l \in 1..Len(K_sa) :
          (K_sa[l] # None /\ K_sa'[l] = None) =>
             pc' \in {"reset", "reset_again", LayerTag(l), LayerTagAgain(l)}
    ]_vars

\* C23, amended: a forward call on warm caches that have as many rows as there
\* are queries raises no error (nothing checks that a reset came first) and
\* appends to the old caches: every row keeps its old entries, cut to the
\* window, and holds min(old length + 1, window) entries, not 1; a call with
\* another number of queries than a warm layer has rows raises (in torch.cat
\* when it reaches that layer) and leaves that layer's cache as it was; only a
\* reset empties a warm layer
C23_WarmStepAppends ==
  [][/\ t' = t + 1 =>
          \A nr \in {Len(h_t')} :
            /\ (/\ ArgumentsAgree
                /\ \A l \in 1..Len(K_sa) :
                     Regular(l) /\ (K_sa[l] # None => Len(K_sa[l]) = nr)) =>
                 /\ pc' = "stepped"
                 /\ \A l \in 1..Len(K_sa) :
                      K_sa[l] # None =>
                        /\ Len(K_sa'[l]) = nr /\ Len(V_sa'[l]) = nr
                        /\ CacheLen(K_sa'[l]) = Stepped(CacheLen(K_sa[l]))
                        /\ CacheLen(V_sa'[l]) = Stepped(CacheLen(V_sa[l]))
                        /\ \A r \in 1..nr : \A n \in {Len(K_sa'[l][r])} :
                             /\ SubSeq(K_sa'[l][r], 1, n - 1) = LastN(K_sa[l][r], n - 1)
                             /\ SubSeq(V_sa'[l][r], 1, n - 1) = LastN(V_sa[l][r], n - 1)
            /\ \A l \in 1..Len(K_sa) :
                 (K_sa[l] # None /\ ~Is4D(K_sa[l]) /\ Len(K_sa[l]) # nr) =>
                    /\ pc' \in {"raised", "raised_one_row"}
                    /\ K_sa'[l] = K_sa[l] /\ V_sa'[l] = V_sa[l]
     /\ \A l \in 1..Len(K_sa) :
          (K_sa[l] # None /\ K_sa'[l] = None) =>
             pc' \in {"reset", "reset_again", LayerTag(l), LayerTagAgain(l)}
    ]_vars

\* the second forward call in a row with no reset and no window: the layers
\* hold 2 entries
C23_Witness ==
  /\ nb_layers_decoder = 3
  /\ pc = "stepped" /\ t = 2 /\ segm_len = 0 /\ Len(h_t) = 2
  /\ Len(K_sa[1]) = 2 /\ CacheLen(K_sa[1]) = 2 /\ CacheLen(K_sa[2]) = 2
  /\ K_sa[1][1][2] = Wk_selfatt(h_t[1])

\* the steps of the decoder calls of a log, in order
DecoderSteps(log) ==
  Let1(SelectSeq(log, LAMBDA e : e[1] = "decoder"), LAMBDA calls :
    Tab(LAMBDA k : calls[k][2], Len(calls)))

\* the steps 0..n-1
StepsTo(n) == Tab(LAMBDA k : k - 1, n)

\* every enabled mode has called the decoder for the steps 0..nb_nodes-1, once
\* each and in order, when forward is about to return
RunsAllSteps ==
  pc = "ret" =>
    DecoderSteps(ops) = (IF greedy THEN StepsTo(nb_nodes) ELSE <<>>)
                           \o (IF beamsearch THEN StepsTo(nb_nodes) ELSE <<>>)

\* C24: a decode run always runs to completion: every enabled mode calls the
\* decoder exactly nb_nodes times, for the steps 0..nb_nodes-1, and then ends;
\* no run leaves early and none takes a step beyond nb_nodes-1
C24_RunsToCompletion ==
  /\ pc # "error"
  /\ pc \in {"greedy", "beam"} => t <= nb_nodes
  /\ RunsAllSteps

RECURSIVE RunHistory(_, _, _)
\* what a run alone leaves after c calls on a freshly constructed decoder:
\* the caches and what TSP_net.forward keeps, one record for every outcome of
\* torch.topk
RunHistory(who, mode, c) ==
  IF c <= 1
  THEN {[ok |-> TRUE, K |-> FreshCache, V |-> FreshCache, h_t |-> RunStart(who).h_t,
         mask |-> RunStart(who).mask, sums |-> <<>>, itb |-> <<>>]}
  ELSE Let2(RunCall(mode, c - 1),
            IF mode = "greedy" THEN c - 2 ELSE (c - 1) \div 2, LAMBDA op, tt :
         UNION {
           IF op = "forward"
           THEN Let1(Decoder(h.h_t, RunInputs(who, Len(h.h_t)), h.mask, h.K, h.V),
                     LAMBDA d :
                  IF ~d.ok THEN {[h EXCEPT !.ok = FALSE, !.K = d.K, !.V = d.V]}
                  ELSE {[ok |-> h.ok, K |-> d.K, V |-> d.V, h_t |-> ch.h_t,
                         mask |-> ch.mask, sums |-> ch.sums, itb |-> ch.itb]
                          : ch \in RunChoice(who, mode, tt, d.logp, h.mask, h.sums)})
           ELSE IF op = "repeat"
           THEN {[h EXCEPT !.K = StackRepeat(h.K, BeamWidth0(RunBeam, RunSteps)),
                           !.V = StackRepeat(h.V, BeamWidth0(RunBeam, RunSteps))]}
           ELSE Let1(StackReorder(h.K, h.V, tt - 1, h.itb),
                     LAMBDA ro : {[h EXCEPT !.ok = h.ok /\ ro.ok, !.K = ro.K, !.V = ro.V]})
           : h \in RunHistory(who, mode, c - 1)})

\* the beams per instance of the caches of a run between two calls: one until
\* the caches are repeated, min(B, nb_nodes) until the first reorder
RunBeamsNow(who) ==
  IF runs.mode[who] = "greedy" \/ runs.done[who] <= 2 THEN 1
  ELSE IF runs.done[who] <= 4 THEN BeamWidth0(RunBeam, RunSteps)
  ELSE RunBeam

\* C25: the caches belong to the decoder, with no lock.  A run whose steps,
\* from the first of its reset to the last of its last call, come with no step
\* of another run between them never raises and finds after each of its calls
\* the caches its own calls alone leave: after a forward, min(its completed
\* steps, window) entries in every layer, all of them its own, in one row per
\* query.  A run that is interleaved with another run's calls can find a cache
\* of another length or entries of the other run (the witness)
C25_UndisturbedRunOwnsCache ==
  \A who \in 1..2 :
    (runs.clean[who] /\ runs.st[who] # "idle") =>
      /\ runs.st[who] # "raised"
      /\ runs.loc[who].op = "none" =>
           \A hs \in {RunHistory(who, runs.mode[who], runs.done[who])} :
             /\ \A h \in hs : h.ok
             /\ \E h \in hs : /\ K_sa = h.K /\ V_sa = h.V
                             /\ runs.h_t[who] = h.h_t /\ runs.mask[who] = h.mask
                             /\ runs.sums[who] = h.sums /\ runs.itb[who] = h.itb
             /\ runs.done[who] >= 2 =>
                  \A l \in 1..Len(K_sa) :
                    /\ CacheLen(K_sa[l]) = WindowLen(runs.t[who])
                    /\ CacheLen(V_sa[l]) = WindowLen(runs.t[who])
                    /\ Len(K_sa[l]) = RunRows * RunBeamsNow(who)
                    /\ Len(V_sa[l]) = RunRows * RunBeamsNow(who)

\* run 2 has completed its first forward between the steps of run 1, on a
\* decoder that keeps every entry, and finds two entries in the first layer;
\* the older one is the key of run 1's first query
C25_Witness ==
  /\ segm_len = 0 /\ runs.st[2] = "run" /\ runs.loc[2].op = "none"
  /\ runs.t[2] = 1 /\ runs.done[2] = 2 /\ ~runs.clean[2]
  /\ K_sa[1] # None /\ ~Is4D(K_sa[1])
  /\ CacheLen(K_sa[1]) = 2
  /\ CacheLen(K_sa[1]) # WindowLen(runs.t[2])
  /\ K_sa[1][1][1] = Wk_selfatt(RunStart(1).h_t[1])
  /\ K_sa[1][1][1] # Wk_selfatt(RunStart(2).h_t[1])

\* ------------------------------------------- tables of positional encodings
\* of every size up to the one the largest instance needs: one call of forward
\* on a freshly constructed model of two decoder layers
InitPE ==
  /\ Constructed /\ max_len_PE \in 0..(MaxNodes + 1)
  /\ nb_layers_decoder = 2 /\ segm_len = 0

SpecPE == InitPE /\ [][Next]_vars

\* ------------------------------------------- beam search of width one:
\* forward(x, B = 1, greedy, beamsearch = True) on a batch of one row, over
\* more inputs than the other specifications draw
CallOne ==
  /\ pc = "idle"
  /\ \E sd \in 0..TieSeed, n \in 1..MaxNodes, g \in BOOLEAN :
       Forward(<<sd>>, n, 1, g, TRUE)

NextWidthOne ==
  \/ CallOne
  \/ GreedyStep
  \/ GreedyEnd
  \/ BeamStep0
  \/ BeamStep1
  \/ BeamStepT
  \/ BeamEnd
  \/ Return

SpecWidthOne == Init /\ [][NextWidthOne]_vars

RECURSIVE GreedyTrace(_, _, _)
\* k steps of greedy decoding of the input row xb alone, on a freshly
\* constructed decoder: the caches, the mask, the tour, the cumulative score,
\* and whether every step had a single most probable node
GreedyTrace(xb, n, k) ==
  IF k = 0
  THEN [K |-> FreshCache, V |-> FreshCache, mask |-> StartMask(n), tour |-> <<>>,
        score |-> 0, unique |-> TRUE, node |-> n]
  ELSE Let2(GreedyTrace(xb, n, k - 1), k - 1, LAMBDA g, k1 :
         Let1(Decoder(<<Emb(xb, g.node, k1)>>, <<xb>>, <<g.mask>>, g.K, g.V), LAMBDA d :
           Let1(ArgMax(d.logp[1]), LAMBDA idx :
             [K |-> d.K, V |-> d.V, mask |-> SetTrue(g.mask, idx),
              tour |-> Append(g.tour, idx),
              score |-> AddScore(d.logp[1][idx + 1], g.score),
              unique |-> g.unique /\ \A j \in 1..(n + 1) :
                            j # idx + 1 => d.logp[1][j] < d.logp[1][idx + 1],
              node |-> idx])))

\* the single beam of batch row b after t steps is the greedy run g
BeamIsGreedy(b, g) ==
  /\ Len(tours[b]) = 1
  /\ SubSeq(tours[b][1], 1, t) = g.tour
  /\ mask_visited_nodes[b][1] = g.mask
  /\ sum_scores[b][1] = g.score
  /\ \A l \in 1..Len(K_sa) : K_sa[l][b] = g.K[l][1] /\ V_sa[l][b] = g.V[l][1]

\* the outputs of beam search for batch row b are those of the greedy run g
BeamOutputIsGreedy(b, g) ==
  /\ tours_beamsearch[b] = <<g.tour>>
  /\ scores_beamsearch[b] = g.score
  /\ greedy => (tours_greedy[b] = g.tour /\ scores_greedy[b] = g.score)

\* C26: beam search with B = 1 is greedy decoding: after every step the beam's
\* nodes, mask, cumulative score and layer caches are those of the greedy run
\* on the same input, and so are the final tour and score
C26_BeamOneIsGreedy ==
  /\ (pc = "beam" /\ B = 1 /\ t >= 1) =>
       \A b \in 1..bsz : \A g \in {GreedyTrace(x[b], nb_nodes, t)} : BeamIsGreedy(b, g)
  /\ (pc = "ret" /\ beamsearch /\ B = 1) =>
       \A b \in 1..bsz : \A g \in {GreedyTrace(x[b], nb_nodes, nb_nodes)} :
          BeamOutputIsGreedy(b, g)

\* the (beam, node) combinations of batch row b a beam-search step can extend
\* a beam by: the unvisited nodes of every beam held before the step (at t = 0
\* the one beam that holds the start token alone)
UnvisitedCombinations(b) ==
  IF t = 0 THEN {<<1, j>> : j \in 1..nb_nodes}
  ELSE {c \in (1..Len(mask_visited_nodes[b])) \X (1..nb_nodes) :
          ~mask_visited_nodes[b][c[1]][c[2]]}

\* the beams of batch row b after the step are pairwise distinct partial tours
DistinctBeams(b) ==
  \A i \in 1..Len(tours'[b]) : \A k \in 1..Len(tours'[b]) :
    i # k => SubSeq(tours'[b][i], 1, t') # SubSeq(tours'[b][k], 1, t')

\* C27: within each batch row the beams held after a beam-search step are
\* pairwise distinct partial tours tour[0..t], whenever at least as many
\* unvisited (beam, node) combinations existed as beams are kept
C27_BeamsAreDistinct ==
  [][(pc = "beam" /\ pc' = "beam" /\ t' = t + 1) =>
       \A b \in 1..bsz :
         Cardinality(UnvisitedCombinations(b)) >= Len(tours'[b]) => DistinctBeams(b)]_vars

\* three beams of three nodes after two steps, two of them children of the
\* same beam, all different
C27_Witness ==
  /\ pc = "beam" /\ t = 2 /\ nb_nodes = 3 /\ B = 3 /\ bsz = 2
  /\ \E i \in 1..3 : \E k \in 1..3 :
       /\ i # k
       /\ idx_top_beams[1][i] = idx_top_beams[1][k]
       /\ tours[1][i][1] = tours[1][k][1]
       /\ tours[1][i][2] # tours[1][k][2]
  /\ \A i \in 1..3 : \A k \in 1..3 :
       i # k => SubSeq(tours[1][i], 1, 2) # SubSeq(tours[1][k], 1, 2)

\* the indices 0, 1, ..., k in order
UpTo(k) == Tab(LAMBDA p : p - 1, (k + 1))

\* C28: decoding N nodes reads the positional-encoding indices 0, 1, ..., N in
\* both modes: after step t-1 the indices read are 0..t, so the last step
\* N-1 reads index N.  Every index read is within the table when
\* max_len_PE >= N+1; with a shorter table the pass never completes, and
\* the first read out of range is the index max_len_PE, which with
\* max_len_PE = N is the read of the last step
C28_ReadsIndicesUpToN ==
  /\ pc = "greedy" => PE_read = UpTo(t)
  /\ (pc = "beam" /\ t >= 1) => PE_read = UpTo(t)
  /\ pc \in {"greedy", "beam", "ret"} => \A p \in 1..Len(PE_read) : InTable(PE_read[p])
  /\ max_len_PE >= nb_nodes + 1 => \A p \in 1..Len(PE_read) : InTable(PE_read[p])
  /\ (max_len_PE <= nb_nodes /\ (greedy \/ beamsearch)) =>
       /\ pc \notin {"ret", "done"}
       /\ pc \in {"greedy", "beam"} => t < nb_nodes
  /\ (pc = "error" /\ PE_read # <<>> /\ ~InTable(PE_read[Len(PE_read)])) =>
       /\ PE_read = UpTo(max_len_PE)
       /\ max_len_PE <= nb_nodes

\* beam search over three nodes with a table of three rows: the last step read
\* index 3 and raised
C28_Witness ==
  /\ pc = "error" /\ beamsearch /\ ~greedy /\ B = 2 /\ nb_nodes = 3 /\ max_len_PE = 3
  /\ PE_read = <<0, 1, 2, 3>>
  /\ \A l \in 1..Len(K_sa) : CacheLen(K_sa[l]) = 3

\* the cache Kn is the cache Kl with every row repeated w times in place
RowsRepeated(Kl, Kn, w) ==
  /\ Len(Kn) = Len(Kl) * w
  /\ \A b \in 0..(Len(Kl) - 1) : \A k \in 0..(w - 1) : Kn[b * w + k + 1] = Kl[b + 1]
  /\ CacheLen(Kn) = CacheLen(Kl)

\* C29: repeat(w) on a warm cache of bsz rows yields bsz*w rows in which the
\* rows b*w .. b*w+w-1 are copies of the former row b (each row repeated in
\* place, the batch is not tiled), and the cache length is unchanged
C29_RepeatIsContiguous ==
  [][pc' = "repeated" =>
       \A l \in 1..Len(K_sa) :
         RowsRepeated(K_sa[l], K_sa'[l], B_t0') /\ RowsRepeated(V_sa[l], V_sa'[l], B_t0')]_vars

\* two different rows of two cached entries each, repeated twice
C29_Witness ==
  /\ nb_layers_decoder = 3 /\ pc = "repeated" /\ B_t0 = 2 /\ t = 2 /\ segm_len = 0
  /\ Len(K_sa[1]) = 4 /\ CacheLen(K_sa[1]) = 2
  /\ K_sa[1][1] = K_sa[1][2] /\ K_sa[1][3] = K_sa[1][4] /\ K_sa[1][1] # K_sa[1][3]
  /\ V_sa[2][1] = V_sa[2][2] /\ V_sa[2][2] # V_sa[2][3]

====
